---- MODULE Spec2Model ----
(***************************************************************************)
(* Memory arbitration of velox: one ArbitrationParticipant (the per-pool   *)
(* facade of velox/common/memory/ArbitrationParticipant.cpp) used by       *)
(* several threads at once.                                                *)
(*                                                                         *)
(* A thread is at a location pc[t] of the method it is executing.  A       *)
(* std::lock_guard section that calls nothing blocking is one step guarded *)
(* by the mutex being free; a section that calls into the memory pool      *)
(* (pool reclaim, pool shrink, pool abort) is entered by one step and left *)
(* by another, so that two threads inside such sections are visible as a   *)
(* state.  The MemoryPool itself is an external collaborator: the Pool*    *)
(* operators model its interface.                                          *)
(***************************************************************************)
EXTENDS Integers, Sequences, FiniteSets, TLC

\* ------------------------------------------------------------------ bounds
\* Threads of the participant specification (Spec, LiveSpec).
NumThreads == 2
\* API calls made in one behaviour of Spec.
MaxCalls == 2
\* Operations (one thread each) of the admission specification (SpecArb).
NumOps == 3
\* startArbitration calls made in one behaviour of SpecArb.
MaxRequests == 4
\* The pool's maxCapacity(), in bytes.
MaxCapacity == 2
\* Build drivers (HashBuild operators) of the join (JoinSpec).
NumDrivers == 2
\* Input rows of the build side, dealt to the drivers in turn.
NumRows == 3
\* Spill partitions of one spill level (2^numPartitionBits).
NumPartitions == 2
\* The deepest spill level at which a spiller is still created (maxSpillLevel).
MaxSpillLevel == 1
\* HashBuild::reclaim calls made in one behaviour of JoinSpec.
MaxReclaims == 3
\* Rows of the largest batch given to addInput.
MaxBatch == 2

VARIABLES
    pc,             \* pc[t]: where thread t is in the method it executes
    err,            \* err[t]: the exception of t's current/last call ("none" if none)
    callId,         \* callId[t]: sequence number of t's current/last call; it
                    \*   identifies the exception raised in or passed to that call
    ret,            \* ret[t]: value returned by t's last completed call
    target,         \* target[t]: the target of the reclaim or pool shrink in flight
    maxGrowBytes,   \* maxGrowBytes[t]: t's out-parameter maxGrowBytes of getGrowTargets
    minGrowBytes,   \* minGrowBytes[t]: t's out-parameter minGrowBytes of getGrowTargets
    calls,          \* number of API calls begun so far
    runningOp,      \* runningOp_: the running operation (0 = nullptr)
    waitOps,        \* waitOps_: FIFO of waiting operations
    promise,        \* promise[op]: times op's wait promise has been fulfilled
    resumePromise,  \* resumePromise[t]: promise moved out by finishArbitration (0 = empty)
    arrivals,       \* operations that enqueued and have not yet resumed, in enqueue order
    stateLock,      \* holder of stateLock_ (0 = free)
    reclaimMutex,   \* holder of reclaimMutex_ (0 = free)
    aborted,        \* aborted_
    numRequests, numReclaims, numShrinks, numGrows, reclaimedBytes, growBytes,
    capacity,       \* pool_->capacity()
    reservedBytes,  \* pool_->reservedBytes()
    peakBytes,      \* pool_->peakBytes()
    poolAborted,    \* pool_->aborted()
    abortError,     \* call id of the exception handed to pool_->abort (0 = none)
    numPoolAborts,  \* times pool_->abort has been called
    config,         \* the participant's Config
    tsanBuild,      \* TRUE in a build with TSAN_BUILD defined
    \* ---- the HashBuild operators of one join (HashBuild.cpp), one per driver
    state,          \* state[d]: state_ of driver d's operator
    at,             \* at[d]: where d's thread is inside the operator ("off" = not in it)
    input,          \* input[d]: the rows of the batch addInput is working on
    pending,        \* pending[d]: rows d's source (upstream or spillInputReader_) still holds
    table,          \* table[d]: the rows stored in table_
    hasTable,       \* hasTable[d]: table_ != nullptr
    spiller,        \* spiller[d]: spiller_ (exists = FALSE: nullptr)
    stateCleared,   \* stateCleared[d]: stateCleared_
    joinHasNullKeys,  \* joinHasNullKeys[d]: joinHasNullKeys_
    noMoreInput_,   \* noMoreInput_[d]: Operator::noMoreInput_
    isInputFromSpill, \* isInputFromSpill[d]: spillInputReader_ != nullptr
    spillLevel,     \* spillLevel[d]: restores nested so far (the partition-bit offset)
    exceededMaxSpillLevelLimit,  \* exceededMaxSpillLevelLimit_[d]
    future,         \* future[d]: "none", or the barrier/probe future "waiting"/"ready"
    closed,         \* closed[d]: close() has run
    failed,         \* failed[d]: a check failed in d's thread and the exception escaped
    inIsBlocked,    \* inIsBlocked[d]: d's current or last call of its operator is isBlocked
    futureLeft,     \* futureLeft[d]: future_ still holds the future of a yield that no
                    \*   isBlocked has handed to the driver
    fit,            \* the inputs, locals and outcome of one ensureInputFits call
    peersFinished,  \* Task: the drivers that have reached the build barrier
    bridgeTable,    \* HashJoinBridge: rows of the table handed over by setHashTable
    bridgeSpill,    \* HashJoinBridge: spilled rows not yet restored, as <<row, level>>
    numSetHashTable,  \* times setHashTable has been called
    numMerges,      \* times prepareJoinTable has been called
    antiJoinHasNullKeys,  \* HashJoinBridge: setAntiJoinHasNullKeys was called
    probeFinished,  \* the probe side is done with the published table
    restoring,      \* rows of the spill partition being restored (shared by the drivers)
    numReclaimCalls,  \* HashBuild::reclaim calls made so far
    reclaimResult,  \* outcome of the last HashBuild::reclaim call
    numNonReclaimableAttempts,  \* stats.numNonReclaimableAttempts
    joinType,       \* "inner", "right" or "anti" (null-aware anti join, no filter)
    canSpillConfig, \* Operator::canSpill()
    nullKeyRows     \* the input rows with a null join key

admissionVars == <<runningOp, waitOps, promise, resumePromise, arrivals>>
lockVars == <<stateLock, reclaimMutex>>
statVars == <<numReclaims, numShrinks, numGrows, reclaimedBytes, growBytes>>
poolVars == <<capacity, reservedBytes, peakBytes, poolAborted, abortError, numPoolAborts>>
callVars == <<err, callId, ret, target, calls>>
buildVars == <<config, tsanBuild>>
targetVars == <<maxGrowBytes, minGrowBytes>>
participantVars == <<pc, callVars, admissionVars, numRequests, lockVars, aborted,
                     statVars, poolVars, buildVars, targetVars>>
operatorVars == <<state, at, input, pending, table, hasTable, spiller, stateCleared,
                  joinHasNullKeys, noMoreInput_, isInputFromSpill, spillLevel,
                  exceededMaxSpillLevelLimit, future, closed, failed>>
bridgeVars == <<peersFinished, bridgeTable, bridgeSpill, numSetHashTable, numMerges,
                antiJoinHasNullKeys, probeFinished, restoring>>
reclaimVars == <<numReclaimCalls, reclaimResult, numNonReclaimableAttempts>>
joinVars == <<joinType, canSpillConfig, nullKeyRows>>
handOutVars == <<inIsBlocked, futureLeft>>
fitVars == <<fit>>
hashBuildVars == <<operatorVars, bridgeVars, reclaimVars, joinVars, handOutVars, fitVars>>
vars == <<participantVars, hashBuildVars>>

Threads == DOMAIN pc

Min(a, b) == IF a <= b THEN a ELSE b
Max(a, b) == IF a >= b THEN a ELSE b

\* ------------------------------------------------------------------ Config
\* Ratios are percentages: static_cast<uint64_t>(x * ratio) is (x * pct) \div 100.
NoPolicy ==
    [minCapacity |-> 0, fastExponentialGrowthCapacityLimit |-> 0,
     slowCapacityGrowRatio |-> 0, minFreeCapacity |-> 0, minFreeCapacityRatio |-> 0,
     minReclaimBytes |-> 0, minReclaimPct |-> 0]
FloorPolicy ==
    [minCapacity |-> 1, fastExponentialGrowthCapacityLimit |-> 0,
     slowCapacityGrowRatio |-> 0, minFreeCapacity |-> 1, minFreeCapacityRatio |-> 50,
     minReclaimBytes |-> 1, minReclaimPct |-> 50]

\* Config::Config: the checks of the constructor.
ConfigValid(c) ==
    /\ c.slowCapacityGrowRatio >= 0
    /\ (c.fastExponentialGrowthCapacityLimit = 0) = (c.slowCapacityGrowRatio = 0)
    /\ c.minFreeCapacityRatio >= 0 /\ c.minFreeCapacityRatio <= 100
    /\ (c.minFreeCapacity = 0) = (c.minFreeCapacityRatio = 0)
    /\ c.minReclaimPct >= 0 /\ c.minReclaimPct <= 100

Configs == {c \in {NoPolicy, FloorPolicy} : ConfigValid(c) /\ c.minCapacity <= MaxCapacity}

\* ------------------------------------------------------------------ policy
\* maxCapacity_ (line 104) of the modelled pool.
maxCapacity == MaxCapacity

inactivePool == reservedBytes = 0 /\ peakBytes # 0

freeBytes == capacity - reservedBytes

\* A maxReclaimableCapacity without the minCapacity floor.
maxReclaimableCapacityNoFloor == capacity

\* A maxReclaimableCapacity that keeps the minCapacity floor for an inactive pool.
maxReclaimableCapacityFlooredWhenInactive ==
    IF capacity < config.minCapacity THEN 0 ELSE capacity - config.minCapacity

\* maxReclaimableCapacity(), lines 155-164.
maxReclaimableCapacity ==
    IF inactivePool THEN capacity
    ELSE IF capacity < config.minCapacity THEN 0
    ELSE capacity - config.minCapacity

\* A maxShrinkCapacity whose floor is the larger of the two limits.
maxShrinkCapacityLargerFloor ==
    IF config.minFreeCapacity # 0 /\ ~inactivePool
    THEN LET minFreeBytes == Max((capacity * config.minFreeCapacityRatio) \div 100,
                                 config.minFreeCapacity)
         IN  IF freeBytes <= minFreeBytes THEN 0 ELSE freeBytes - minFreeBytes
    ELSE freeBytes

\* maxShrinkCapacity(), lines 172-187.
maxShrinkCapacity ==
    IF config.minFreeCapacity # 0 /\ ~inactivePool
    THEN LET minFreeBytes == Min((capacity * config.minFreeCapacityRatio) \div 100,
                                 config.minFreeCapacity)
         IN  IF freeBytes <= minFreeBytes THEN 0 ELSE freeBytes - minFreeBytes
    ELSE freeBytes

\* A reclaimableFreeCapacity that looks at the free bytes only.
reclaimableFreeCapacityOfFreeBytes == maxShrinkCapacity

\* A reclaimableFreeCapacity that takes the larger of the two limits.
reclaimableFreeCapacityMax == Max(maxShrinkCapacity, maxReclaimableCapacity)

reclaimableFreeCapacity == Min(maxShrinkCapacity, maxReclaimableCapacity)

\* pool_->reclaimableBytes(): the answers the pool can give, -1 for nullopt.
PoolReclaimableBytes == {-1} \cup (0..MaxCapacity)

\* reclaimableBytes.value_or(0), line 169.
valueOr0(reclaimableBytes) == IF reclaimableBytes = -1 THEN 0 ELSE reclaimableBytes

\* A reclaimableUsedCapacity that does not ask the pool.
reclaimableUsedCapacityIgnoringPool(reclaimableBytes) == maxReclaimableCapacity

\* reclaimableUsedCapacity(), lines 166-170, for the pool's answer reclaimableBytes.
reclaimableUsedCapacity(reclaimableBytes) ==
    Min(maxReclaimableCapacity, valueOr0(reclaimableBytes))

\* ------------------------------------------------------------------ MemoryPool
\* pool_->shrink(targetBytes): gives back the free bytes, at most targetBytes of
\* them unless targetBytes is 0; returns the bytes given back.
PoolShrinkBytes(targetBytes) ==
    IF targetBytes = 0 THEN freeBytes ELSE Min(targetBytes, freeBytes)

\* pool_->grow(growBytes, reservationBytes): refused beyond maxCapacity.
PoolGrowOk(bytes, reservation) ==
    /\ capacity + bytes <= MaxCapacity
    /\ reservedBytes + reservation <= capacity + bytes

\* ------------------------------------------------------------------ calls
\* A thread begins an API call: the call gets the next sequence number.
Begin(t) ==
    /\ pc[t] = "idle"
    /\ calls < MaxCalls
    /\ calls' = calls + 1
    /\ callId' = [callId EXCEPT ![t] = calls + 1]
    /\ ret' = [ret EXCEPT ![t] = 0]

\* ------------------------------------------------------------------ admission
\* A startArbitration that admits without looking at runningOp_.
startArbitrationNoCheck(t) ==
    /\ pc[t] = "idle"
    /\ stateLock = 0
    /\ numRequests' = numRequests + 1
    /\ runningOp' = t
    /\ promise' = [promise EXCEPT ![t] = 0]
    /\ pc' = [pc EXCEPT ![t] = "running"]
    /\ UNCHANGED <<waitOps, arrivals, resumePromise, lockVars, aborted,
                   statVars, poolVars, buildVars, targetVars, hashBuildVars>>

\* A startArbitration that queues every operation, whether one runs or not.
startArbitrationAlwaysQueues(t) ==
    /\ pc[t] = "idle"
    /\ stateLock = 0
    /\ numRequests' = numRequests + 1
    /\ waitOps' = Append(waitOps, t)
    /\ promise' = [promise EXCEPT ![t] = 0]
    /\ arrivals' = Append(arrivals, t)
    /\ pc' = [pc EXCEPT ![t] = "start_wait"]
    /\ UNCHANGED <<runningOp, resumePromise, lockVars, aborted, statVars, poolVars,
                   buildVars, targetVars, hashBuildVars>>

\* A startArbitration that also queues the operation it makes running.
startArbitrationQueuesRunner(t) ==
    /\ pc[t] = "idle"
    /\ stateLock = 0
    /\ numRequests' = numRequests + 1
    /\ waitOps' = Append(waitOps, t)
    /\ promise' = [promise EXCEPT ![t] = 0]
    /\ IF runningOp # 0
       THEN /\ arrivals' = Append(arrivals, t)
            /\ pc' = [pc EXCEPT ![t] = "start_wait"]
            /\ UNCHANGED runningOp
       ELSE /\ runningOp' = t
            /\ pc' = [pc EXCEPT ![t] = "running"]
            /\ UNCHANGED arrivals
    /\ UNCHANGED <<resumePromise, lockVars, aborted, statVars, poolVars, buildVars, targetVars,
                   hashBuildVars>>

\* startArbitration(op), lines 218-233: a fresh wait promise, then the section
\* under stateLock_.  The operation of thread t is t.  A waiter then blocks in
\* waitPromise.wait().
startArbitration(t) ==
    /\ pc[t] = "idle"
    /\ stateLock = 0
    /\ numRequests' = numRequests + 1
    /\ IF runningOp # 0
       THEN /\ waitOps' = Append(waitOps, t)
            /\ promise' = [promise EXCEPT ![t] = 0]
            /\ arrivals' = Append(arrivals, t)
            /\ pc' = [pc EXCEPT ![t] = "start_wait"]
            /\ UNCHANGED runningOp
       ELSE /\ runningOp' = t
            /\ promise' = [promise EXCEPT ![t] = 0]
            /\ pc' = [pc EXCEPT ![t] = "running"]
            /\ UNCHANGED <<waitOps, arrivals>>
    /\ UNCHANGED <<resumePromise, lockVars, aborted, statVars, poolVars, buildVars, targetVars,
                   hashBuildVars>>

\* startArbitration, lines 239-241: waitPromise.wait() returns once the promise
\* has been fulfilled.
startArbitrationResume(t) ==
    /\ pc[t] = "start_wait"
    /\ promise[t] > 0
    /\ pc' = [pc EXCEPT ![t] = "running"]
    /\ arrivals' = SelectSeq(arrivals, LAMBDA o : o # t)
    /\ UNCHANGED <<callVars, runningOp, waitOps, promise, resumePromise, numRequests,
                   lockVars, aborted, statVars, poolVars, buildVars, targetVars, hashBuildVars>>

\* A finishArbitration that resumes the back of the queue.
finishArbitrationLifo(t) ==
    /\ pc[t] = "running"
    /\ stateLock = 0
    /\ runningOp = t
    /\ IF waitOps # <<>>
       THEN /\ resumePromise' = [resumePromise EXCEPT ![t] = waitOps[Len(waitOps)]]
            /\ runningOp' = waitOps[Len(waitOps)]
            /\ waitOps' = SubSeq(waitOps, 1, Len(waitOps) - 1)
            /\ pc' = [pc EXCEPT ![t] = "finish_resume"]
       ELSE /\ runningOp' = 0
            /\ pc' = [pc EXCEPT ![t] = "idle"]
            /\ UNCHANGED <<waitOps, resumePromise>>
    /\ UNCHANGED <<callVars, promise, arrivals, numRequests, lockVars, aborted,
                   statVars, poolVars, buildVars, targetVars, hashBuildVars>>

\* A finishArbitration that resumes the front of the queue without popping it.
finishArbitrationKeepFront(t) ==
    /\ pc[t] = "running"
    /\ stateLock = 0
    /\ runningOp = t
    /\ IF waitOps # <<>>
       THEN /\ resumePromise' = [resumePromise EXCEPT ![t] = Head(waitOps)]
            /\ runningOp' = Head(waitOps)
            /\ pc' = [pc EXCEPT ![t] = "finish_resume"]
            /\ UNCHANGED waitOps
       ELSE /\ runningOp' = 0
            /\ pc' = [pc EXCEPT ![t] = "idle"]
            /\ UNCHANGED <<waitOps, resumePromise>>
    /\ UNCHANGED <<callVars, promise, arrivals, numRequests, lockVars, aborted,
                   statVars, poolVars, buildVars, targetVars, hashBuildVars>>

\* A finishArbitration that clears runningOp_ and resumes nobody.
finishArbitrationNoResume(t) ==
    /\ pc[t] = "running"
    /\ stateLock = 0
    /\ runningOp = t
    /\ runningOp' = 0
    /\ pc' = [pc EXCEPT ![t] = "idle"]
    /\ UNCHANGED <<callVars, waitOps, resumePromise, promise, arrivals, numRequests,
                   lockVars, aborted, statVars, poolVars, buildVars, targetVars, hashBuildVars>>

\* finishArbitration(op), lines 246-256: the section under stateLock_, called by
\* the thread of the running operation (the check of line 248 passes).
finishArbitration(t) ==
    /\ pc[t] = "running"
    /\ stateLock = 0
    /\ runningOp = t
    /\ IF waitOps # <<>>
       THEN /\ resumePromise' = [resumePromise EXCEPT ![t] = Head(waitOps)]
            /\ runningOp' = Head(waitOps)
            /\ waitOps' = Tail(waitOps)
            /\ pc' = [pc EXCEPT ![t] = "finish_resume"]
       ELSE /\ runningOp' = 0
            /\ pc' = [pc EXCEPT ![t] = "idle"]
            /\ UNCHANGED <<waitOps, resumePromise>>
    /\ UNCHANGED <<callVars, promise, arrivals, numRequests, lockVars, aborted,
                   statVars, poolVars, buildVars, targetVars, hashBuildVars>>

\* finishArbitration, lines 257-259: resumePromise.setValue() outside the lock.
finishArbitrationSetValue(t) ==
    /\ pc[t] = "finish_resume"
    /\ promise' = [promise EXCEPT ![resumePromise[t]] = @ + 1]
    /\ resumePromise' = [resumePromise EXCEPT ![t] = 0]
    /\ pc' = [pc EXCEPT ![t] = "idle"]
    /\ UNCHANGED <<callVars, runningOp, waitOps, arrivals, numRequests, lockVars,
                   aborted, statVars, poolVars, buildVars, targetVars, hashBuildVars>>

\* ------------------------------------------------------------------ SpecArb
\* Admission alone: NumOps operations call startArbitration / finishArbitration
\* on one participant, MaxRequests times in all.
\* No ensureInputFits call is being followed.
NoFit == [pos |-> "none"]

\* No join is being built: the HashBuild part of the state is empty.
InitNoOperator ==
    /\ state = <<>> /\ at = <<>> /\ input = <<>> /\ pending = <<>>
    /\ table = <<>> /\ hasTable = <<>> /\ spiller = <<>> /\ stateCleared = <<>>
    /\ joinHasNullKeys = <<>> /\ noMoreInput_ = <<>> /\ isInputFromSpill = <<>>
    /\ spillLevel = <<>> /\ exceededMaxSpillLevelLimit = <<>> /\ future = <<>>
    /\ closed = <<>> /\ failed = <<>>
    /\ inIsBlocked = <<>> /\ futureLeft = <<>>
    /\ peersFinished = {} /\ bridgeTable = {} /\ bridgeSpill = {}
    /\ numSetHashTable = 0 /\ numMerges = 0 /\ antiJoinHasNullKeys = FALSE
    /\ probeFinished = FALSE /\ restoring = {}
    /\ numReclaimCalls = 0 /\ reclaimResult = [op |-> 0, result |-> "none"] /\ numNonReclaimableAttempts = 0
    /\ joinType = "inner" /\ canSpillConfig = FALSE /\ nullKeyRows = {}

InitNoJoin == InitNoOperator /\ fit = NoFit

\* The participant part of the state at construction.
InitParticipant ==
    /\ runningOp = 0 /\ waitOps = <<>> /\ arrivals = <<>>
    /\ stateLock = 0 /\ reclaimMutex = 0
    /\ aborted = FALSE /\ poolAborted = FALSE
    /\ numRequests = 0 /\ numReclaims = 0 /\ numShrinks = 0 /\ numGrows = 0
    /\ reclaimedBytes = 0 /\ growBytes = 0
    /\ abortError = 0 /\ numPoolAborts = 0 /\ calls = 0

InitShared ==
    /\ InitParticipant
    /\ InitNoJoin

InitThreads(n) ==
    /\ pc = [t \in 1..n |-> "idle"]
    /\ err = [t \in 1..n |-> "none"]
    /\ callId = [t \in 1..n |-> 0]
    /\ ret = [t \in 1..n |-> 0]
    /\ target = [t \in 1..n |-> 0]
    /\ maxGrowBytes = [t \in 1..n |-> 0]
    /\ minGrowBytes = [t \in 1..n |-> 0]
    /\ promise = [t \in 1..n |-> 0]
    /\ resumePromise = [t \in 1..n |-> 0]

InitArb ==
    /\ InitShared
    /\ InitThreads(NumOps)
    /\ capacity = 0 /\ reservedBytes = 0 /\ peakBytes = 0
    /\ config = NoPolicy /\ tsanBuild = FALSE

ArbStart(t) == numRequests < MaxRequests /\ startArbitration(t) /\ UNCHANGED callVars

NextArb ==
    \/ \E t \in Threads : ArbStart(t)
    \/ \E t \in Threads : startArbitrationResume(t)
    \/ \E t \in Threads : finishArbitration(t)
    \/ \E t \in Threads : finishArbitrationSetValue(t)

SpecArb == InitArb /\ [][NextArb]_vars

\* The running operation's thread eventually calls finishArbitration, a
\* fulfilled promise wakes its waiter, and setValue follows the unlock; arrivals
\* (startArbitration calls) are not forced.
FairArb ==
    /\ SpecArb
    /\ \A t \in 1..NumOps :
        /\ WF_vars(finishArbitration(t))
        /\ WF_vars(finishArbitrationSetValue(t))
        /\ WF_vars(startArbitrationResume(t))

\* ------------------------------------------------------------------ shrinkLocked
\* shrinkLocked(reclaimAll), lines 328-338, entered with stateLock_ just taken:
\* what is asked of pool_->shrink (0 asks for every free byte), or -1 when the
\* pool is not called at all.
\* A shrinkLocked that always asks for the policy's reclaimable free capacity.
shrinkLockedTargetAlwaysPolicy(reclaimAll) ==
    IF reclaimableFreeCapacity > 0 THEN reclaimableFreeCapacity ELSE -1

shrinkLockedTarget(reclaimAll) ==
    IF reclaimAll THEN 0
    ELSE IF reclaimableFreeCapacity > 0 THEN reclaimableFreeCapacity ELSE -1

\* shrinkLocked, lines 336-340: pool_->shrink returns; the capacity and
\* reclaimedBytes_ move by the bytes it gave back, which the caller returns.
shrinkLockedEffect(t) ==
    /\ capacity' = capacity - PoolShrinkBytes(target[t])
    /\ reclaimedBytes' = reclaimedBytes + PoolShrinkBytes(target[t])
    /\ ret' = [ret EXCEPT ![t] = PoolShrinkBytes(target[t])]
    /\ target' = [target EXCEPT ![t] = 0]

\* The lock_guard on reclaimMutex_ of abort(), line 345, is released on return;
\* the ArbitrationTimedLock of reclaim(), line 290, at the end of the try block.
ReleasedByReturn(t) == IF reclaimMutex = t THEN 0 ELSE reclaimMutex

\* ------------------------------------------------------------------ shrink
\* shrink(reclaimAll), lines 322-325 and 328-335: takes stateLock_ and enters
\* pool_->shrink, or returns 0 when nothing is reclaimable.
shrink(t, reclaimAll) ==
    /\ Begin(t)
    /\ stateLock = 0
    /\ numShrinks' = numShrinks + 1
    /\ err' = [err EXCEPT ![t] = "none"]
    /\ IF shrinkLockedTarget(reclaimAll) >= 0
       THEN /\ stateLock' = t
            /\ target' = [target EXCEPT ![t] = shrinkLockedTarget(reclaimAll)]
            /\ pc' = [pc EXCEPT ![t] = "shrink_pool"]
       ELSE /\ UNCHANGED <<stateLock, target, pc>>
    /\ UNCHANGED <<admissionVars, numRequests, reclaimMutex, aborted, numReclaims,
                   numGrows, reclaimedBytes, growBytes, poolVars, buildVars, targetVars,
                   hashBuildVars>>

\* shrink, lines 336-341: pool_->shrink returns, stateLock_ is released.
shrinkReturn(t) ==
    /\ pc[t] = "shrink_pool"
    /\ shrinkLockedEffect(t)
    /\ stateLock' = 0
    /\ pc' = [pc EXCEPT ![t] = "idle"]
    /\ UNCHANGED <<err, callId, calls, admissionVars, numRequests, reclaimMutex,
                   aborted, numReclaims, numShrinks, numGrows, growBytes, reservedBytes,
                   peakBytes, poolAborted, abortError, numPoolAborts, buildVars, targetVars,
                   hashBuildVars>>

\* ------------------------------------------------------------------ grow
\* A grow that adds to growBytes_ whatever the pool answers.
growCountsRefusedBytes(t, bytes, reservation) ==
    /\ pc[t] = "idle"
    /\ calls < MaxCalls
    /\ calls' = calls + 1
    /\ callId' = [callId EXCEPT ![t] = calls + 1]
    /\ stateLock = 0
    /\ numGrows' = numGrows + 1
    /\ err' = [err EXCEPT ![t] = "none"]
    /\ growBytes' = growBytes + bytes
    /\ IF PoolGrowOk(bytes, reservation)
       THEN /\ capacity' = capacity + bytes
            /\ reservedBytes' = reservedBytes + reservation
            /\ peakBytes' = Max(peakBytes, reservedBytes + reservation)
            /\ ret' = [ret EXCEPT ![t] = 1]
       ELSE /\ ret' = [ret EXCEPT ![t] = 0]
            /\ UNCHANGED <<capacity, reservedBytes, peakBytes>>
    /\ UNCHANGED <<pc, target, admissionVars, numRequests, lockVars, aborted,
                   numReclaims, numShrinks, reclaimedBytes, poolAborted, abortError,
                   numPoolAborts, buildVars, targetVars, hashBuildVars>>

\* grow(growBytes, reservationBytes), lines 310-320, under stateLock_: the call
\* begins (Begin) and returns success, 1 for true and 0 for false.
grow(t, bytes, reservation) ==
    /\ pc[t] = "idle"
    /\ calls < MaxCalls
    /\ calls' = calls + 1
    /\ callId' = [callId EXCEPT ![t] = calls + 1]
    /\ stateLock = 0
    /\ numGrows' = numGrows + 1
    /\ err' = [err EXCEPT ![t] = "none"]
    /\ IF PoolGrowOk(bytes, reservation)
       THEN /\ capacity' = capacity + bytes
            /\ reservedBytes' = reservedBytes + reservation
            /\ peakBytes' = Max(peakBytes, reservedBytes + reservation)
            /\ growBytes' = growBytes + bytes
            /\ ret' = [ret EXCEPT ![t] = 1]
       ELSE /\ ret' = [ret EXCEPT ![t] = 0]
            /\ UNCHANGED <<capacity, reservedBytes, peakBytes, growBytes>>
    /\ UNCHANGED <<pc, target, admissionVars, numRequests, lockVars, aborted,
                   numReclaims, numShrinks, reclaimedBytes, poolAborted, abortError,
                   numPoolAborts, buildVars, targetVars, hashBuildVars>>

\* ------------------------------------------------------------------ abortLocked
\* An abortLocked that does not look at aborted_.
abortLockedNoCheck(t) ==
    /\ pc[t] = "abort_state"
    /\ stateLock = 0
    /\ aborted' = TRUE
    /\ pc' = [pc EXCEPT ![t] = "abort_pool"]
    /\ UNCHANGED <<callVars, admissionVars, numRequests, lockVars, statVars, poolVars,
                   buildVars, targetVars, hashBuildVars>>

\* abortLocked(error), lines 353-359: the check of aborted_ under stateLock_.  An
\* aborted participant returns 0 at once.
abortLocked(t) ==
    /\ pc[t] = "abort_state"
    /\ stateLock = 0
    /\ IF aborted
       THEN /\ ret' = [ret EXCEPT ![t] = 0]
            /\ target' = [target EXCEPT ![t] = 0]
            /\ reclaimMutex' = ReleasedByReturn(t)
            /\ pc' = [pc EXCEPT ![t] = "idle"]
            /\ UNCHANGED aborted
       ELSE /\ aborted' = TRUE
            /\ pc' = [pc EXCEPT ![t] = "abort_pool"]
            /\ UNCHANGED <<ret, target, reclaimMutex>>
    /\ UNCHANGED <<err, callId, calls, admissionVars, numRequests, stateLock,
                   statVars, poolVars, buildVars, targetVars, hashBuildVars>>

\* abortLocked, lines 361-372: pool_->abort(error) returns (or throws, which is
\* caught); the pool is aborted and has released its reservations, or has not yet.
abortLockedPoolAbort(t, released) ==
    /\ pc[t] = "abort_pool"
    /\ poolAborted' = TRUE
    /\ abortError' = callId[t]
    /\ numPoolAborts' = numPoolAborts + 1
    /\ reservedBytes' = IF released THEN 0 ELSE reservedBytes
    /\ pc' = [pc EXCEPT ![t] = "abort_shrink_lock"]
    /\ UNCHANGED <<callVars, admissionVars, numRequests, lockVars, aborted, statVars,
                   capacity, peakBytes, buildVars, targetVars, hashBuildVars>>

\* abortLocked, lines 374-375 and 328-332: stateLock_ again, shrinkLocked(true)
\* enters pool_->shrink(0).
abortLockedShrink(t) ==
    /\ pc[t] = "abort_shrink_lock"
    /\ stateLock = 0
    /\ stateLock' = t
    /\ numShrinks' = numShrinks + 1
    /\ target' = [target EXCEPT ![t] = shrinkLockedTarget(TRUE)]
    /\ pc' = [pc EXCEPT ![t] = "abort_shrink"]
    /\ UNCHANGED <<err, callId, ret, calls, admissionVars, numRequests, reclaimMutex,
                   aborted, numReclaims, numGrows, reclaimedBytes, growBytes, poolVars,
                   buildVars, targetVars, hashBuildVars>>

\* abortLocked, lines 339-340 and 375: pool_->shrink(0) returns; abortLocked
\* returns the bytes given back to its caller, which returns them.
abortLockedReturn(t) ==
    /\ pc[t] = "abort_shrink"
    /\ shrinkLockedEffect(t)
    /\ stateLock' = 0
    /\ reclaimMutex' = ReleasedByReturn(t)
    /\ pc' = [pc EXCEPT ![t] = "idle"]
    /\ UNCHANGED <<err, callId, calls, admissionVars, numRequests, aborted,
                   numReclaims, numShrinks, numGrows, growBytes, reservedBytes,
                   peakBytes, poolAborted, abortError, numPoolAborts, buildVars, targetVars,
                   hashBuildVars>>

\* ------------------------------------------------------------------ abort
\* An abort that takes stateLock_ before it blocks on reclaimMutex_.
abortHoldingStateLock(t) ==
    /\ Begin(t)
    /\ stateLock = 0
    /\ stateLock' = t
    /\ err' = [err EXCEPT ![t] = "user"]
    /\ pc' = [pc EXCEPT ![t] = "abort_lock"]
    /\ UNCHANGED <<target, admissionVars, numRequests, reclaimMutex, aborted, statVars,
                   poolVars, buildVars, targetVars, hashBuildVars>>

\* abort(error), lines 343-345: the call, which then blocks on reclaimMutex_.
abort(t) ==
    /\ Begin(t)
    /\ err' = [err EXCEPT ![t] = "user"]
    /\ pc' = [pc EXCEPT ![t] = "abort_lock"]
    /\ UNCHANGED <<target, admissionVars, numRequests, lockVars, aborted, statVars,
                   poolVars, buildVars, targetVars, hashBuildVars>>

\* abort, lines 345-346: reclaimMutex_ acquired, abortLocked entered.
abortLock(t) ==
    /\ pc[t] = "abort_lock"
    /\ reclaimMutex = 0
    /\ reclaimMutex' = t
    /\ pc' = [pc EXCEPT ![t] = "abort_state"]
    /\ UNCHANGED <<callVars, admissionVars, numRequests, stateLock, aborted, statVars,
                   poolVars, buildVars, targetVars, hashBuildVars>>

\* ------------------------------------------------------------------ reclaim
\* An effective target that is the sum of the request and the floor.
reclaimTargetSum(targetBytes) ==
    targetBytes + Max(config.minReclaimBytes, (capacity * config.minReclaimPct) \div 100)

\* reclaim, lines 281-284: the effective target.
reclaimTarget(targetBytes) ==
    Max(targetBytes,
        Max(config.minReclaimBytes, (capacity * config.minReclaimPct) \div 100))

\* reclaim(targetBytes, maxWaitTimeNs, stats), lines 277-290: the call; with a
\* zero target it returns 0, else it enters the try block and waits for
\* reclaimMutex_.
reclaim(t, targetBytes) ==
    /\ Begin(t)
    /\ err' = [err EXCEPT ![t] = "none"]
    /\ target' = [target EXCEPT ![t] = reclaimTarget(targetBytes)]
    /\ pc' = [pc EXCEPT ![t] =
                 IF reclaimTarget(targetBytes) = 0 THEN "idle" ELSE "reclaim_lock"]
    /\ UNCHANGED <<admissionVars, numRequests, lockVars, aborted, statVars, poolVars,
                   buildVars, targetVars, hashBuildVars>>

\* ArbitrationTimedLock, lines 428-433 and 439-443: reclaimMutex_ acquired
\* (lock() under TSAN_BUILD, try_lock_for otherwise); reclaim, lines 293-297:
\* ++numReclaims_ and into pool_->reclaim.
reclaimLock(t) ==
    /\ pc[t] = "reclaim_lock"
    /\ reclaimMutex = 0
    /\ reclaimMutex' = t
    /\ numReclaims' = numReclaims + 1
    /\ pc' = [pc EXCEPT ![t] = "reclaim_pool"]
    /\ UNCHANGED <<callVars, admissionVars, numRequests, stateLock, aborted, numShrinks,
                   numGrows, reclaimedBytes, growBytes, poolVars, buildVars, targetVars,
                   hashBuildVars>>

\* A timed lock that never gives up.
reclaimLockNeverTimesOut(t) ==
    /\ FALSE
    /\ pc[t] = "reclaim_lock"
    /\ UNCHANGED vars

\* ArbitrationTimedLock, lines 443-446: try_lock_for gives up while another
\* thread holds reclaimMutex_ and VELOX_MEM_ARBITRATION_TIMEOUT throws inside
\* the try block of reclaim; lines 302-305: the catch block calls abortLocked.
\* There is no timeout under TSAN_BUILD.
reclaimLockTimeout(t) ==
    /\ pc[t] = "reclaim_lock"
    /\ ~tsanBuild
    /\ reclaimMutex # 0
    /\ err' = [err EXCEPT ![t] = "timeout"]
    /\ pc' = [pc EXCEPT ![t] = "abort_state"]
    /\ UNCHANGED <<callId, ret, target, calls, admissionVars, numRequests, lockVars,
                   aborted, statVars, poolVars, buildVars, targetVars, hashBuildVars>>

\* reclaim, lines 296-298: pool_->reclaim returns having freed some of the
\* reservations; shrink(false) is called next.
reclaimPoolReturn(t, freed) ==
    /\ pc[t] = "reclaim_pool"
    /\ freed <= reservedBytes
    /\ reservedBytes' = reservedBytes - freed
    /\ pc' = [pc EXCEPT ![t] = "reclaim_shrink_lock"]
    /\ UNCHANGED <<callVars, admissionVars, numRequests, lockVars, aborted, statVars,
                   capacity, peakBytes, poolAborted, abortError, numPoolAborts, buildVars,
                   targetVars, hashBuildVars>>

\* A reclaim whose catch block swallows the exception and returns 0.
reclaimPoolThrowSwallowed(t) ==
    /\ pc[t] = "reclaim_pool"
    /\ reclaimMutex' = 0
    /\ err' = [err EXCEPT ![t] = "reclaim"]
    /\ ret' = [ret EXCEPT ![t] = 0]
    /\ target' = [target EXCEPT ![t] = 0]
    /\ pc' = [pc EXCEPT ![t] = "idle"]
    /\ UNCHANGED <<callId, calls, admissionVars, numRequests, stateLock, aborted,
                   statVars, poolVars, buildVars, targetVars, hashBuildVars>>

\* reclaim, lines 296-297 and 302-305: pool_->reclaim throws.  Leaving the try
\* block destroys the ArbitrationTimedLock, which unlocks reclaimMutex_, before
\* the catch block calls abortLocked.
reclaimPoolThrow(t) ==
    /\ pc[t] = "reclaim_pool"
    /\ reclaimMutex' = 0
    /\ err' = [err EXCEPT ![t] = "reclaim"]
    /\ pc' = [pc EXCEPT ![t] = "abort_state"]
    /\ UNCHANGED <<callId, ret, target, calls, admissionVars, numRequests, stateLock,
                   aborted, statVars, poolVars, buildVars, targetVars, hashBuildVars>>

\* reclaim, line 298, shrink lines 322-335: shrink(false) takes stateLock_ and
\* enters pool_->shrink, or finds nothing reclaimable and reclaim returns 0.
reclaimShrink(t) ==
    /\ pc[t] = "reclaim_shrink_lock"
    /\ stateLock = 0
    /\ numShrinks' = numShrinks + 1
    /\ IF shrinkLockedTarget(FALSE) >= 0
       THEN /\ stateLock' = t
            /\ target' = [target EXCEPT ![t] = shrinkLockedTarget(FALSE)]
            /\ pc' = [pc EXCEPT ![t] = "reclaim_shrink"]
            /\ UNCHANGED <<ret, reclaimMutex>>
       ELSE /\ ret' = [ret EXCEPT ![t] = 0]
            /\ target' = [target EXCEPT ![t] = 0]
            /\ reclaimMutex' = 0
            /\ pc' = [pc EXCEPT ![t] = "idle"]
            /\ UNCHANGED stateLock
    /\ UNCHANGED <<err, callId, calls, admissionVars, numRequests, aborted, numReclaims,
                   numGrows, reclaimedBytes, growBytes, poolVars, buildVars, targetVars,
                   hashBuildVars>>

\* reclaim, lines 298-307: pool_->shrink returns, both locks are released and
\* reclaim returns the capacity given back.
reclaimReturn(t) ==
    /\ pc[t] = "reclaim_shrink"
    /\ shrinkLockedEffect(t)
    /\ stateLock' = 0
    /\ reclaimMutex' = 0
    /\ pc' = [pc EXCEPT ![t] = "idle"]
    /\ UNCHANGED <<err, callId, calls, admissionVars, numRequests, aborted,
                   numReclaims, numShrinks, numGrows, growBytes, reservedBytes,
                   peakBytes, poolAborted, abortError, numPoolAborts, buildVars, targetVars,
                   hashBuildVars>>

\* reclaim, lines 298 and 302-305: the shrink that follows the reclaim callback
\* throws out of pool_->shrink; unwinding releases stateLock_ and then
\* reclaimMutex_, and the catch block calls abortLocked.
reclaimShrinkThrow(t) ==
    /\ pc[t] = "reclaim_shrink"
    /\ stateLock' = 0
    /\ reclaimMutex' = 0
    /\ err' = [err EXCEPT ![t] = "shrink"]
    /\ pc' = [pc EXCEPT ![t] = "abort_state"]
    /\ UNCHANGED <<callId, ret, target, calls, admissionVars, numRequests, aborted,
                   statVars, poolVars, buildVars, targetVars, hashBuildVars>>

\* ------------------------------------------------------------------ Spec
\* NumThreads threads make MaxCalls calls in all of startArbitration (each
\* followed by finishArbitration), grow, shrink, reclaim and abort on one
\* participant, in either build.
Init ==
    /\ InitShared
    /\ InitThreads(NumThreads)
    /\ capacity \in 1..MaxCapacity
    /\ reservedBytes \in {0, capacity}
    /\ peakBytes = reservedBytes
    /\ config = NoPolicy
    /\ tsanBuild = FALSE

start(t) ==
    /\ Begin(t)
    /\ startArbitration(t)
    /\ err' = [err EXCEPT ![t] = "none"]
    /\ UNCHANGED target

Next ==
    \/ \E t \in Threads : start(t)
    \/ \E t \in Threads : startArbitrationResume(t)
    \/ \E t \in Threads : finishArbitration(t)
    \/ \E t \in Threads : finishArbitrationSetValue(t)
    \/ \E t \in Threads, reservation \in {0, 1} : grow(t, 1, reservation)
    \/ \E t \in Threads, reclaimAll \in BOOLEAN : shrink(t, reclaimAll)
    \/ \E t \in Threads : shrinkReturn(t)
    \/ \E t \in Threads, targetBytes \in {0, 1} : reclaim(t, targetBytes)
    \/ \E t \in Threads : reclaimLock(t)
    \/ \E t \in Threads : reclaimLockTimeout(t)
    \/ \E t \in Threads, freed \in 0..MaxCapacity : reclaimPoolReturn(t, freed)
    \/ \E t \in Threads : reclaimPoolThrow(t)
    \/ \E t \in Threads : reclaimShrink(t)
    \/ \E t \in Threads : reclaimReturn(t)
    \/ \E t \in Threads : reclaimShrinkThrow(t)
    \/ \E t \in Threads : abort(t)
    \/ \E t \in Threads : abortLock(t)
    \/ \E t \in Threads : abortLocked(t)
    \/ \E t \in Threads, released \in BOOLEAN : abortLockedPoolAbort(t, released)
    \/ \E t \in Threads : abortLockedShrink(t)
    \/ \E t \in Threads : abortLockedReturn(t)

Spec == Init /\ [][Next]_vars

\* ------------------------------------------------------------------ LiveSpec
\* Threads that only call reclaim, in either build.  Every step of a call is
\* taken eventually except the return of pool_->reclaim: the pool's reclaim
\* callback may never come back, and then its thread keeps reclaimMutex_ for
\* ever.  New calls are not forced.
InitLive ==
    /\ InitShared
    /\ InitThreads(NumThreads)
    /\ capacity \in 1..MaxCapacity
    /\ reservedBytes = capacity
    /\ peakBytes = reservedBytes
    /\ config = NoPolicy
    /\ tsanBuild \in BOOLEAN

NextLive ==
    \/ \E t \in Threads, targetBytes \in {0, 1} : reclaim(t, targetBytes)
    \/ \E t \in Threads : reclaimLock(t)
    \/ \E t \in Threads : reclaimLockTimeout(t)
    \/ \E t \in Threads, freed \in 0..MaxCapacity : reclaimPoolReturn(t, freed)
    \/ \E t \in Threads : reclaimPoolThrow(t)
    \/ \E t \in Threads : reclaimShrink(t)
    \/ \E t \in Threads : reclaimReturn(t)
    \/ \E t \in Threads : reclaimShrinkThrow(t)
    \/ \E t \in Threads : abortLocked(t)
    \/ \E t \in Threads, released \in BOOLEAN : abortLockedPoolAbort(t, released)
    \/ \E t \in Threads : abortLockedShrink(t)
    \/ \E t \in Threads : abortLockedReturn(t)

LiveSpec ==
    /\ InitLive
    /\ [][NextLive]_vars
    /\ \A t \in 1..NumThreads :
        /\ WF_vars(reclaimLock(t) \/ reclaimLockTimeout(t))
        /\ WF_vars(reclaimShrink(t))
        /\ WF_vars(reclaimReturn(t) \/ reclaimShrinkThrow(t))
        /\ WF_vars(abortLocked(t))
        /\ WF_vars(\E released \in BOOLEAN : abortLockedPoolAbort(t, released))
        /\ WF_vars(abortLockedShrink(t))
        /\ WF_vars(abortLockedReturn(t))

\* ------------------------------------------------------------------ PolicySpec
\* The Configs the constructor accepts for a pool whose maxCapacity is
\* MaxCapacity: every floor switched on or off (lines 62-85 and 106-110).
PolicyConfigs ==
    {c \in [minCapacity : 0..MaxCapacity, fastExponentialGrowthCapacityLimit : {0},
            slowCapacityGrowRatio : {0}, minFreeCapacity : {0, 1},
            minFreeCapacityRatio : {0, 50}, minReclaimBytes : {0, 1},
            minReclaimPct : {0, 50}] : ConfigValid(c)}

\* One thread makes MaxCalls calls of grow, shrink, reclaim and abort on a
\* participant with any policy, created over a pool that holds at least its
\* minCapacity and has any reservation and any peak.
InitPolicy ==
    /\ InitShared
    /\ InitThreads(1)
    /\ config \in PolicyConfigs
    /\ capacity \in config.minCapacity..MaxCapacity
    /\ reservedBytes \in 0..capacity
    /\ peakBytes \in reservedBytes..MaxCapacity
    /\ tsanBuild = FALSE

NextPolicy ==
    \/ \E t \in Threads, reservation \in {0, 1} : grow(t, 1, reservation)
    \/ \E t \in Threads, reclaimAll \in BOOLEAN : shrink(t, reclaimAll)
    \/ \E t \in Threads : shrinkReturn(t)
    \/ \E t \in Threads, targetBytes \in {0, 1} : reclaim(t, targetBytes)
    \/ \E t \in Threads : reclaimLock(t)
    \/ \E t \in Threads, freed \in 0..MaxCapacity : reclaimPoolReturn(t, freed)
    \/ \E t \in Threads : reclaimPoolThrow(t)
    \/ \E t \in Threads : reclaimShrink(t)
    \/ \E t \in Threads : reclaimReturn(t)
    \/ \E t \in Threads : reclaimShrinkThrow(t)
    \/ \E t \in Threads : abort(t)
    \/ \E t \in Threads : abortLock(t)
    \/ \E t \in Threads : abortLocked(t)
    \/ \E t \in Threads, released \in BOOLEAN : abortLockedPoolAbort(t, released)
    \/ \E t \in Threads : abortLockedShrink(t)
    \/ \E t \in Threads : abortLockedReturn(t)

PolicySpec == InitPolicy /\ [][NextPolicy]_vars

\* ------------------------------------------------------------------ HashBuild
\* The HashBuild operators of one hash join (HashBuild.cpp), one per driver of
\* the build pipeline.  A driver's thread is at at[d] inside its operator, "off"
\* when it is not executing it.  The Task (allPeersFinished), the HashJoinBridge,
\* the probe side and the spillers are collaborators modelled by their interface.
Drivers == DOMAIN state
Rows == 1..NumRows

\* The driver whose source delivers row r.
owner(r) == ((r - 1) % NumDrivers) + 1

\* spiller_->hashBits().partition(hash) of row r for a spiller of this level.
hashPartition(r, level) == (r \div (NumPartitions ^ level)) % NumPartitions

\* The id of the spill partition that row r falls into when spilled by a
\* spiller of this level: its partition numbers from level 0 down to this level.
SpillPartitionId(r, level) == [l \in 0..level |-> hashPartition(r, l)]

NoSpiller ==
    [exists |-> FALSE, spillTriggered |-> FALSE, finalized |-> FALSE, rows |-> {},
     level |-> 0]

\* setupSpiller, lines 228-236: a fresh HashBuildSpiller for this spill level.
NewSpiller(level) ==
    [exists |-> TRUE, spillTriggered |-> FALSE, finalized |-> FALSE, rows |-> {},
     level |-> level]

\* Operator::nonReclaimableSection_: set by the driver around the operator's
\* methods, cleared inside a ReclaimableSectionGuard (lines 494, 821).
nonReclaimableSection(d) ==
    at[d] \in {"addInput", "finishHashBuild", "adoptPeers", "promises", "promisesFailed"}

\* A nonReclaimableState that does not look at the spiller.
nonReclaimableStateIgnoringSpiller(d) ==
    \/ state[d] \notin {"kRunning", "kWaitForBuild", "kYield"}
    \/ nonReclaimableSection(d)

\* A nonReclaimableState that does not look at state_.
nonReclaimableStateIgnoringState(d) ==
    \/ nonReclaimableSection(d)
    \/ ~spiller[d].exists
    \/ spiller[d].finalized

\* nonReclaimableState(), lines 1152-1164.
nonReclaimableState(d) ==
    \/ state[d] \notin {"kRunning", "kWaitForBuild", "kYield"}
    \/ nonReclaimableSection(d)
    \/ ~spiller[d].exists
    \/ spiller[d].finalized

\* canReclaim(), lines 1070-1072.
canReclaim(d) == canSpillConfig /\ ~exceededMaxSpillLevelLimit[d]

\* The batches the source of driver d can deliver next: its first rows.
Batches(d) ==
    {b \in SUBSET pending[d] :
        /\ b # {} /\ Cardinality(b) <= MaxBatch
        /\ \A r \in b, q \in pending[d] \ b : r < q}

\* N build drivers at the start of the pipeline (initialize, lines 110-116):
\* an empty table each, a spiller when spilling is enabled, all input pending.
InitJoin ==
    /\ InitParticipant
    /\ InitThreads(0)
    /\ capacity = 0 /\ reservedBytes = 0 /\ peakBytes = 0
    /\ config = NoPolicy /\ tsanBuild = FALSE
    /\ joinType \in {"inner", "right", "anti"}
    /\ canSpillConfig \in BOOLEAN
    /\ nullKeyRows \in {{}, {1}}
    /\ state = [d \in 1..NumDrivers |-> "kRunning"]
    /\ at = [d \in 1..NumDrivers |-> "off"]
    /\ input = [d \in 1..NumDrivers |-> {}]
    /\ pending = [d \in 1..NumDrivers |-> {r \in Rows : owner(r) = d}]
    /\ table = [d \in 1..NumDrivers |-> {}]
    /\ hasTable = [d \in 1..NumDrivers |-> TRUE]
    /\ spiller = [d \in 1..NumDrivers |-> IF canSpillConfig THEN NewSpiller(0) ELSE NoSpiller]
    /\ stateCleared = [d \in 1..NumDrivers |-> FALSE]
    /\ joinHasNullKeys = [d \in 1..NumDrivers |-> FALSE]
    /\ noMoreInput_ = [d \in 1..NumDrivers |-> FALSE]
    /\ isInputFromSpill = [d \in 1..NumDrivers |-> FALSE]
    /\ spillLevel = [d \in 1..NumDrivers |-> 0]
    /\ exceededMaxSpillLevelLimit = [d \in 1..NumDrivers |-> FALSE]
    /\ future = [d \in 1..NumDrivers |-> "none"]
    /\ closed = [d \in 1..NumDrivers |-> FALSE]
    /\ failed = [d \in 1..NumDrivers |-> FALSE]
    /\ inIsBlocked = [d \in 1..NumDrivers |-> FALSE]
    /\ futureLeft = [d \in 1..NumDrivers |-> FALSE]
    /\ fit = NoFit
    /\ peersFinished = {} /\ bridgeTable = {} /\ bridgeSpill = {}
    /\ numSetHashTable = 0 /\ numMerges = 0 /\ antiJoinHasNullKeys = FALSE
    /\ probeFinished = FALSE /\ restoring = {}
    /\ numReclaimCalls = 0 /\ reclaimResult = [op |-> 0, result |-> "none"] /\ numNonReclaimableAttempts = 0

\* Driver d's thread may enter its operator.
Live(d) == at[d] = "off" /\ ~closed[d] /\ ~failed[d]

\* ------------------------------------------------------------------ addInput
\* addInput(input), lines 309-311: the driver (or processSpillInput, line 890)
\* hands the operator the next batch of its source.
addInput(d, batch) ==
    /\ Live(d)
    /\ state[d] = "kRunning"
    /\ isInputFromSpill[d] \/ ~noMoreInput_[d]
    /\ batch \in Batches(d)
    /\ at' = [at EXCEPT ![d] = "addInput"]
    /\ input' = [input EXCEPT ![d] = batch]
    /\ pending' = [pending EXCEPT ![d] = pending[d] \ batch]
    /\ UNCHANGED <<state, table, hasTable, spiller, stateCleared, joinHasNullKeys,
                   noMoreInput_, isInputFromSpill, spillLevel,
                   exceededMaxSpillLevelLimit, future, closed, failed>>
    /\ UNCHANGED <<participantVars, bridgeVars, reclaimVars, joinVars, fitVars>>
    /\ inIsBlocked' = [inIsBlocked EXCEPT ![d] = @ /\ isInputFromSpill[d]]
    /\ UNCHANGED futureLeft

\* ensureInputFits, lines 430-432 and 493-495: with a spiller that has not been
\* triggered the operator may have to ask the pool for memory, which it does
\* inside a ReclaimableSectionGuard.
ensureInputFits(d) ==
    /\ at[d] = "addInput"
    /\ canSpillConfig /\ spiller[d].exists /\ ~spiller[d].spillTriggered
    /\ at' = [at EXCEPT ![d] = "maybeReserve"]
    /\ UNCHANGED <<state, input, pending, table, hasTable, spiller, stateCleared,
                   joinHasNullKeys, noMoreInput_, isInputFromSpill, spillLevel,
                   exceededMaxSpillLevelLimit, future, closed, failed>>
    /\ UNCHANGED <<participantVars, bridgeVars, reclaimVars, joinVars, fitVars, handOutVars>>

\* addInput, lines 337-344: the rows of the batch left selected after the rows
\* with a null key are deselected (all of them for a right join).
activeRows(d) ==
    IF joinType \in {"inner", "anti"} THEN input[d] \ nullKeyRows ELSE input[d]

\* spillInput, lines 515-518: the batch goes to the spiller.
spillTriggered(d) ==
    canSpillConfig /\ spiller[d].exists /\ spiller[d].spillTriggered

\* A spillInput that spills the rows without deselecting them.
spillInputKeepsRows(d) ==
    /\ spiller' = [spiller EXCEPT ![d].rows =
                      IF spillTriggered(d) THEN @ \cup activeRows(d) ELSE @]
    /\ table' = [table EXCEPT ![d] = @ \cup activeRows(d)]

\* spillInput, lines 512-552, and the insertion, lines 375-424: once the
\* spiller has been triggered every selected row is written to its partition
\* and deselected; the rows still selected are stored in the table.
spillInput(d) ==
    /\ spiller' = [spiller EXCEPT ![d].rows =
                      IF spillTriggered(d) THEN @ \cup activeRows(d) ELSE @]
    /\ table' = [table EXCEPT ![d] =
                      IF spillTriggered(d) THEN @ ELSE @ \cup activeRows(d)]

\* A processSpillInput that yields to kWaitForProbe instead of kYield.
yieldAfterBatchWaitingForProbe(d, shouldYield) ==
    IF shouldYield
    THEN /\ state' = [state EXCEPT ![d] = "kWaitForProbe"]
         /\ future' = [future EXCEPT ![d] = "ready"]
         /\ futureLeft' = [futureLeft EXCEPT ![d] = ~inIsBlocked[d]]
    ELSE UNCHANGED <<state, future, futureLeft>>

\* processSpillInput, lines 891-898, after addInput has returned with the
\* operator still running: when the driver asks to yield, state_ becomes
\* kYield and future_ an already fulfilled future.
yieldAfterBatch(d, shouldYield) ==
    IF shouldYield
    THEN /\ state' = [state EXCEPT ![d] = "kYield"]
         /\ future' = [future EXCEPT ![d] = "ready"]
         /\ futureLeft' = [futureLeft EXCEPT ![d] = ~inIsBlocked[d]]
    ELSE UNCHANGED <<state, future, futureLeft>>

\* addInput, lines 313-424, after ensureInputFits: null keys are noted; a
\* null-aware anti join that has seen a null key calls noMoreInput() and
\* returns; otherwise the batch is spilled or stored.  When the batch came
\* from processSpillInput, lines 889-898, the driver's shouldYield() is asked
\* once addInput has returned.
addInputStore(d, shouldYield) ==
    /\ at[d] \in {"addInput", "maybeReserve"}
    /\ joinHasNullKeys' =
          [joinHasNullKeys EXCEPT ![d] =
              @ \/ (joinType = "anti" /\ activeRows(d) # input[d])]
    /\ input' = [input EXCEPT ![d] = {}]
    /\ IF joinType = "anti" /\ joinHasNullKeys'[d]
       THEN /\ noMoreInput_' = [noMoreInput_ EXCEPT ![d] = TRUE]
            /\ at' = [at EXCEPT ![d] =
                         IF noMoreInput_[d] THEN "off" ELSE "finishHashBuild"]
            /\ UNCHANGED <<table, spiller>>
       ELSE /\ spillInput(d)
            /\ at' = [at EXCEPT ![d] = "off"]
            /\ UNCHANGED noMoreInput_
    /\ shouldYield => isInputFromSpill[d] /\ at'[d] = "off"
    /\ yieldAfterBatch(d, shouldYield)
    /\ UNCHANGED <<pending, hasTable, stateCleared, isInputFromSpill, spillLevel,
                   exceededMaxSpillLevelLimit, closed, failed>>
    /\ UNCHANGED <<participantVars, bridgeVars, reclaimVars, joinVars, fitVars>>
    /\ UNCHANGED inIsBlocked

\* noMoreInput(), lines 623-632: the driver's source is exhausted.
noMoreInput(d) ==
    /\ Live(d)
    /\ state[d] = "kRunning"
    /\ ~isInputFromSpill[d] /\ ~noMoreInput_[d] /\ pending[d] = {}
    /\ noMoreInput_' = [noMoreInput_ EXCEPT ![d] = TRUE]
    /\ at' = [at EXCEPT ![d] = "finishHashBuild"]
    /\ UNCHANGED <<state, input, pending, table, hasTable, spiller, stateCleared,
                   joinHasNullKeys, isInputFromSpill, spillLevel,
                   exceededMaxSpillLevelLimit, future, closed, failed>>
    /\ UNCHANGED <<participantVars, bridgeVars, reclaimVars, joinVars, fitVars>>
    /\ inIsBlocked' = [inIsBlocked EXCEPT ![d] = FALSE]
    /\ UNCHANGED futureLeft

\* processSpillInput, lines 889 and 900: the spill reader has no batch left.
processSpillInput(d) ==
    /\ Live(d)
    /\ state[d] = "kRunning"
    /\ isInputFromSpill[d] /\ pending[d] = {}
    /\ at' = [at EXCEPT ![d] = "finishHashBuild"]
    /\ UNCHANGED <<state, input, pending, table, hasTable, spiller, stateCleared,
                   joinHasNullKeys, noMoreInput_, isInputFromSpill, spillLevel,
                   exceededMaxSpillLevelLimit, future, closed, failed>>
    /\ UNCHANGED <<participantVars, bridgeVars, reclaimVars, joinVars, fitVars, handOutVars>>

\* ------------------------------------------------------------------ finishHashBuild
\* finishHashBuild, lines 686-706: the peers the last driver d looks at before
\* its first loop ends: all of them, or those up to the first peer that makes
\* it return (a null key of a null-aware anti join) or throw (a cleared peer).
Stoppers(d) ==
    {p \in Drivers \ {d} : (joinType = "anti" /\ joinHasNullKeys[p]) \/ stateCleared[p]}

FirstStopper(d) == CHOOSE p \in Stoppers(d) : \A q \in Stoppers(d) : p <= q

Examined(d) ==
    IF Stoppers(d) = {} THEN Drivers \ {d}
    ELSE {p \in Drivers \ {d} : p <= FirstStopper(d)}

\* ensureTableFits, lines 800-803 and 820-822: the reservation for the merged
\* table is asked for inside a ReclaimableSectionGuard.
NeedsTableReservation(d) ==
    /\ canSpillConfig /\ spiller[d].exists /\ ~spiller[d].spillTriggered
    /\ \E p \in Drivers : table[p] # {}

\* A barrier at which every driver goes on to merge.
finishHashBuildNoBarrier(d) ==
    /\ at[d] = "finishHashBuild"
    /\ peersFinished' = peersFinished \cup {d}
    /\ at' = [at EXCEPT ![d] = "adoptPeers"]
    /\ UNCHANGED <<state, future, joinHasNullKeys, antiJoinHasNullKeys>>
    /\ UNCHANGED <<input, pending, table, hasTable, spiller, stateCleared, noMoreInput_,
                   isInputFromSpill, spillLevel, exceededMaxSpillLevelLimit, closed,
                   failed, bridgeTable, bridgeSpill, numSetHashTable, numMerges,
                   probeFinished, restoring>>
    /\ UNCHANGED <<participantVars, reclaimVars, joinVars, fitVars>>
    /\ futureLeft' = [futureLeft EXCEPT ![d] = @ /\ state'[d] # "kWaitForBuild"]
    /\ UNCHANGED inIsBlocked

\* A last driver that does not look at its peers' null keys.
finishHashBuildIgnoringPeerNullKeys(d) ==
    /\ at[d] = "finishHashBuild"
    /\ IF peersFinished \cup {d} # Drivers
       THEN /\ peersFinished' = peersFinished \cup {d}
            /\ state' = [state EXCEPT ![d] = "kWaitForBuild"]
            /\ future' = [future EXCEPT ![d] = "waiting"]
            /\ at' = [at EXCEPT ![d] = "off"]
            /\ UNCHANGED <<joinHasNullKeys, antiJoinHasNullKeys>>
       ELSE /\ peersFinished' = {}
            /\ UNCHANGED <<state, future>>
            /\ IF joinType = "anti" /\ joinHasNullKeys[d]
               THEN /\ antiJoinHasNullKeys' = TRUE
                    /\ at' = [at EXCEPT ![d] = "promises"]
                    /\ UNCHANGED joinHasNullKeys
               ELSE /\ joinHasNullKeys' =
                          [joinHasNullKeys EXCEPT ![d] =
                              @ \/ \E p \in Examined(d) : joinHasNullKeys[p]]
                    /\ IF {p \in Stoppers(d) : stateCleared[p]} = {}
                       THEN /\ at' = [at EXCEPT ![d] =
                                         IF NeedsTableReservation(d)
                                         THEN "ensureTableFits" ELSE "adoptPeers"]
                            /\ UNCHANGED antiJoinHasNullKeys
                       ELSE IF FALSE
                       THEN /\ antiJoinHasNullKeys' = TRUE
                            /\ at' = [at EXCEPT ![d] = "promises"]
                       ELSE /\ at' = [at EXCEPT ![d] = "promisesFailed"]
                            /\ UNCHANGED antiJoinHasNullKeys
    /\ probeFinished' = (probeFinished /\ at'[d] # "promises")
    /\ restoring' = IF at'[d] = "promises" THEN {} ELSE restoring
    /\ UNCHANGED <<input, pending, table, hasTable, spiller, stateCleared, noMoreInput_,
                   isInputFromSpill, spillLevel, exceededMaxSpillLevelLimit, closed,
                   failed, bridgeTable, bridgeSpill, numSetHashTable, numMerges>>
    /\ UNCHANGED <<participantVars, reclaimVars, joinVars, fitVars>>
    /\ futureLeft' = [futureLeft EXCEPT ![d] = @ /\ state'[d] # "kWaitForBuild"]
    /\ UNCHANGED inIsBlocked

\* finishHashBuild, lines 642-706.  allPeersFinished is true only for the last
\* driver to arrive; the others wait in kWaitForBuild.  The last driver marks
\* the bridge for a null-aware anti join with a null key (a new build result
\* for the probe side), fails on a cleared peer, or goes on to ensureTableFits.
finishHashBuild(d) ==
    /\ at[d] = "finishHashBuild"
    /\ IF peersFinished \cup {d} # Drivers
       THEN /\ peersFinished' = peersFinished \cup {d}
            /\ state' = [state EXCEPT ![d] = "kWaitForBuild"]
            /\ future' = [future EXCEPT ![d] = "waiting"]
            /\ at' = [at EXCEPT ![d] = "off"]
            /\ UNCHANGED <<joinHasNullKeys, antiJoinHasNullKeys>>
       ELSE /\ peersFinished' = {}
            /\ UNCHANGED <<state, future>>
            /\ IF joinType = "anti" /\ joinHasNullKeys[d]
               THEN /\ antiJoinHasNullKeys' = TRUE
                    /\ at' = [at EXCEPT ![d] = "promises"]
                    /\ UNCHANGED joinHasNullKeys
               ELSE /\ joinHasNullKeys' =
                          [joinHasNullKeys EXCEPT ![d] =
                              @ \/ \E p \in Examined(d) : joinHasNullKeys[p]]
                    /\ IF Stoppers(d) = {}
                       THEN /\ at' = [at EXCEPT ![d] =
                                         IF NeedsTableReservation(d)
                                         THEN "ensureTableFits" ELSE "adoptPeers"]
                            /\ UNCHANGED antiJoinHasNullKeys
                       ELSE IF joinType = "anti" /\ joinHasNullKeys[FirstStopper(d)]
                       THEN /\ antiJoinHasNullKeys' = TRUE
                            /\ at' = [at EXCEPT ![d] = "promises"]
                       ELSE /\ at' = [at EXCEPT ![d] = "promisesFailed"]
                            /\ UNCHANGED antiJoinHasNullKeys
    /\ probeFinished' = (probeFinished /\ at'[d] # "promises")
    /\ restoring' = IF at'[d] = "promises" THEN {} ELSE restoring
    /\ UNCHANGED <<input, pending, table, hasTable, spiller, stateCleared, noMoreInput_,
                   isInputFromSpill, spillLevel, exceededMaxSpillLevelLimit, closed,
                   failed, bridgeTable, bridgeSpill, numSetHashTable, numMerges>>
    /\ UNCHANGED <<participantVars, reclaimVars, joinVars, fitVars>>
    /\ futureLeft' = [futureLeft EXCEPT ![d] = @ /\ state'[d] # "kWaitForBuild"]
    /\ UNCHANGED inIsBlocked

\* ensureTableFits, lines 820-831: maybeReserve returns.
ensureTableFits(d) ==
    /\ at[d] = "ensureTableFits"
    /\ at' = [at EXCEPT ![d] = "adoptPeers"]
    /\ UNCHANGED <<state, input, pending, table, hasTable, spiller, stateCleared,
                   joinHasNullKeys, noMoreInput_, isInputFromSpill, spillLevel,
                   exceededMaxSpillLevelLimit, future, closed, failed>>
    /\ UNCHANGED <<participantVars, bridgeVars, reclaimVars, joinVars, fitVars, handOutVars>>

\* A last driver that takes the state of every peer, cleared or not.
AdoptedIgnoringCleared(d) == Drivers \ {d}

\* finishHashBuild, lines 713-729: the peers whose state the last driver takes
\* before its second loop ends: all, or those before the first cleared peer.
Adopted(d) ==
    {p \in Drivers \ {d} : \A q \in Drivers \ {d} : (q <= p) => ~stateCleared[q]}

\* A finishSpill that hands over the spilled rows of one spiller only.
finishSpillOfOne(ds) ==
    {<<r, spiller[CHOOSE p \in ds : TRUE].level>> :
        r \in spiller[CHOOSE p \in ds : TRUE].rows}

\* finishSpill(spillPartitions), lines 727 and 732: the rows of these
\* spillers, each with the level of the partition that holds it.
finishSpill(ds) ==
    UNION {{<<r, spiller[p].level>> : r \in spiller[p].rows} : p \in ds}

\* finishHashBuild, lines 710-794: the last driver takes the table and the
\* spiller of every peer under the peer's mutex (failing on a cleared peer),
\* finishes the spillers, merges the tables (prepareJoinTable) and hands the
\* merged table and the spill partitions to the bridge (setHashTable).
adoptPeers(d) ==
    /\ at[d] = "adoptPeers"
    /\ stateCleared' = [p \in Drivers |->
          IF p \in Adopted(d) THEN TRUE
          ELSE IF p = d /\ Adopted(d) = Drivers \ {d} THEN canSpillConfig
          ELSE stateCleared[p]]
    /\ IF Adopted(d) = Drivers \ {d}
       THEN /\ table' = [p \in Drivers |-> {}]
            /\ hasTable' = [p \in Drivers |-> FALSE]
            /\ spiller' = [p \in Drivers |->
                  IF p = d /\ spiller[d].exists
                  THEN [spiller[d] EXCEPT !.finalized = TRUE] ELSE NoSpiller]
            /\ bridgeTable' = UNION {table[p] : p \in Drivers}
            /\ bridgeSpill' = bridgeSpill \cup finishSpill(Drivers)
            /\ numMerges' = numMerges + 1
            /\ numSetHashTable' = numSetHashTable + 1
            /\ probeFinished' = FALSE
            /\ restoring' = {}
            /\ at' = [at EXCEPT ![d] = "promises"]
       ELSE /\ table' = [p \in Drivers |-> IF p \in Adopted(d) THEN {} ELSE table[p]]
            /\ hasTable' = [p \in Drivers |-> IF p \in Adopted(d) THEN FALSE ELSE hasTable[p]]
            /\ spiller' = [p \in Drivers |-> IF p \in Adopted(d) THEN NoSpiller ELSE spiller[p]]
            /\ at' = [at EXCEPT ![d] = "promisesFailed"]
            /\ UNCHANGED <<bridgeTable, bridgeSpill, numMerges, numSetHashTable,
                           probeFinished, restoring>>
    /\ UNCHANGED <<state, input, pending, joinHasNullKeys, noMoreInput_,
                   isInputFromSpill, spillLevel, exceededMaxSpillLevelLimit, future,
                   closed, failed, peersFinished, antiJoinHasNullKeys>>
    /\ UNCHANGED <<participantVars, reclaimVars, joinVars, fitVars, handOutVars>>

\* ------------------------------------------------------------------ postHashBuildProcess
\* The level of the spill partition being restored.
RestoringLevel == (CHOOSE x \in restoring : TRUE)[2]

\* A setupSpiller that never finds the spill level limit exceeded.
ExceedSpillLevelLimitNever == FALSE

\* setupSpiller(spillPartition), lines 203-226: the level of the new spiller
\* is one below the restored partition's; past maxSpillLevel none is created.
ExceedSpillLevelLimit == RestoringLevel + 1 > MaxSpillLevel

\* setupSpillInput, lines 857-884, with f the futures after the caller's
\* changes: a null partition finishes the operator; otherwise the table, the
\* spiller and the reader are set up anew for the driver's share of the
\* partition, and processSpillInput starts.
setupSpillInput(d, f) ==
    /\ future' = f
    /\ IF restoring = {}
       THEN /\ state' = [state EXCEPT ![d] = "kFinish"]
            /\ UNCHANGED <<pending, table, hasTable, spiller, stateCleared,
                           isInputFromSpill, spillLevel, exceededMaxSpillLevelLimit>>
       ELSE /\ state' = [state EXCEPT ![d] = "kRunning"]
            /\ table' = [table EXCEPT ![d] = {}]
            /\ hasTable' = [hasTable EXCEPT ![d] = TRUE]
            /\ spillLevel' = [spillLevel EXCEPT ![d] = RestoringLevel + 1]
            /\ exceededMaxSpillLevelLimit' =
                  [exceededMaxSpillLevelLimit EXCEPT ![d] = ExceedSpillLevelLimit]
            /\ spiller' = [spiller EXCEPT ![d] =
                  IF ExceedSpillLevelLimit THEN NoSpiller
                  ELSE NewSpiller(RestoringLevel + 1)]
            /\ isInputFromSpill' = [isInputFromSpill EXCEPT ![d] = TRUE]
            /\ pending' = [pending EXCEPT ![d] =
                  {x[1] : x \in {y \in restoring : owner(y[1]) = d}}]
            /\ stateCleared' = [stateCleared EXCEPT ![d] = FALSE]

\* postHashBuildProcess, lines 840-855, entered in kRunning with f the futures
\* after the caller's changes: without spilling the operator is finished;
\* otherwise it takes the bridge's spill input or waits for the probe side.
postHashBuildProcess(d, f) ==
    IF ~canSpillConfig
    THEN /\ state' = [state EXCEPT ![d] = "kFinish"]
         /\ future' = f
         /\ UNCHANGED <<pending, table, hasTable, spiller, stateCleared,
                        isInputFromSpill, spillLevel, exceededMaxSpillLevelLimit>>
    ELSE IF ~probeFinished
    THEN /\ state' = [state EXCEPT ![d] = "kWaitForProbe"]
         /\ future' = [f EXCEPT ![d] = "waiting"]
         /\ UNCHANGED <<pending, table, hasTable, spiller, stateCleared,
                        isInputFromSpill, spillLevel, exceededMaxSpillLevelLimit>>
    ELSE setupSpillInput(d, f)

\* A last driver that leaves the promises of its peers alone.
RealizedForNobody(d) == future

\* The promises of the peers waiting at the barrier are fulfilled.
Realized(d) ==
    [p \in Drivers |->
        IF p # d /\ state[p] = "kWaitForBuild" /\ future[p] = "waiting"
        THEN "ready" ELSE future[p]]

\* isBlocked, lines 989-992: the call that resumed a yielded operator returns
\* with the operator finished while future_ still holds the future of a yield
\* taken outside isBlocked (in noMoreInput), and the VELOX_CHECK fails.
HandOutCheckFails(d) ==
    inIsBlocked[d] /\ futureLeft[d] /\ state'[d] = "kFinish"

\* finishHashBuild, lines 664-671: on the way out of the last driver's
\* finishHashBuild, by return or by exception, the SCOPE_EXIT fulfils the
\* promises of the waiting peers; after a return noMoreInputInternal goes on to
\* postHashBuildProcess (lines 635-639).
fulfilPromises(d) ==
    /\ at[d] \in {"promises", "promisesFailed"}
    /\ at' = [at EXCEPT ![d] = "off"]
    /\ IF at[d] = "promisesFailed"
       THEN /\ failed' = [failed EXCEPT ![d] = TRUE]
            /\ future' = Realized(d)
            /\ UNCHANGED <<state, pending, table, hasTable, spiller, stateCleared,
                           isInputFromSpill, spillLevel, exceededMaxSpillLevelLimit>>
       ELSE /\ postHashBuildProcess(d, Realized(d))
            /\ failed' = [failed EXCEPT ![d] = HandOutCheckFails(d)]
    /\ UNCHANGED <<input, joinHasNullKeys, noMoreInput_, closed>>
    /\ UNCHANGED <<participantVars, bridgeVars, reclaimVars, joinVars, fitVars>>
    /\ futureLeft' = [futureLeft EXCEPT ![d] = @ /\ state'[d] # "kWaitForProbe"]
    /\ UNCHANGED inIsBlocked

\* isBlocked, lines 977-984: the future the operator waited on is fulfilled;
\* the operator is set running again and goes on to postHashBuildProcess.
isBlocked(d) ==
    /\ Live(d)
    /\ state[d] \in {"kWaitForBuild", "kWaitForProbe"}
    /\ future[d] = "ready"
    /\ postHashBuildProcess(d, [future EXCEPT ![d] = "none"])
    /\ UNCHANGED <<at, input, joinHasNullKeys, noMoreInput_, closed, failed>>
    /\ UNCHANGED <<participantVars, bridgeVars, reclaimVars, joinVars, fitVars>>
    /\ inIsBlocked' = [inIsBlocked EXCEPT ![d] = TRUE]
    /\ UNCHANGED futureLeft

\* isBlocked, lines 970-974: an operator that yielded is set running again
\* (setState's check, lines 1018-1025, passes from kYield only when the
\* operator can spill) and processSpillInput goes on with the spill reader:
\* its next batch is the next addInput, its end the next processSpillInput.
isBlockedYield(d) ==
    /\ Live(d)
    /\ state[d] = "kYield"
    /\ future' = [future EXCEPT ![d] = "none"]
    /\ IF canSpillConfig /\ isInputFromSpill[d]
       THEN state' = [state EXCEPT ![d] = "kRunning"] /\ UNCHANGED failed
       ELSE failed' = [failed EXCEPT ![d] = TRUE] /\ UNCHANGED state
    /\ UNCHANGED <<at, input, pending, table, hasTable, spiller, stateCleared,
                   joinHasNullKeys, noMoreInput_, isInputFromSpill, spillLevel,
                   exceededMaxSpillLevelLimit, closed>>
    /\ UNCHANGED <<participantVars, bridgeVars, reclaimVars, joinVars, fitVars>>
    /\ inIsBlocked' = [inIsBlocked EXCEPT ![d] = TRUE]
    /\ UNCHANGED futureLeft

\* addInput, line 310, and noMoreInput, line 624, called on a finished
\* operator: checkRunning throws before anything else is done.
checkRunning(d) ==
    /\ Live(d)
    /\ state[d] = "kFinish"
    /\ failed' = [failed EXCEPT ![d] = TRUE]
    /\ inIsBlocked' = [inIsBlocked EXCEPT ![d] = FALSE]
    /\ UNCHANGED <<state, at, input, pending, table, hasTable, spiller, stateCleared,
                   joinHasNullKeys, noMoreInput_, isInputFromSpill, spillLevel,
                   exceededMaxSpillLevelLimit, future, closed, futureLeft>>
    /\ UNCHANGED <<participantVars, bridgeVars, reclaimVars, joinVars, fitVars>>

\* isBlocked, lines 975-976 and 989-993, called on a finished operator, which
\* holds no future: nothing is done and nothing is handed out.
isBlockedFinished(d) ==
    /\ Live(d)
    /\ state[d] = "kFinish"
    /\ inIsBlocked' = [inIsBlocked EXCEPT ![d] = TRUE]
    /\ UNCHANGED <<state, at, input, pending, table, hasTable, spiller, stateCleared,
                   joinHasNullKeys, noMoreInput_, isInputFromSpill, spillLevel,
                   exceededMaxSpillLevelLimit, future, closed, failed, futureLeft>>
    /\ UNCHANGED <<participantVars, bridgeVars, reclaimVars, joinVars, fitVars>>

\* The spill partitions the bridge holds: the sets of spilled rows with one id.
SpillPartitions ==
    {{y \in bridgeSpill : SpillPartitionId(y[1], y[2]) = SpillPartitionId(x[1], x[2])
                          /\ y[2] = x[2]} : x \in bridgeSpill}

\* HashJoinBridge, probe side: the probe is done with the published table (or
\* with the null-key mark); the bridge picks the next spill partition to
\* restore, or none, and answers the build operators waiting for spill input.
probeFinishes(next) ==
    /\ canSpillConfig
    /\ ~probeFinished
    /\ numSetHashTable > 0 \/ antiJoinHasNullKeys
    /\ next \in (IF bridgeSpill = {} THEN {{}} ELSE SpillPartitions)
    /\ probeFinished' = TRUE
    /\ restoring' = next
    /\ bridgeSpill' = bridgeSpill \ next
    /\ future' = [p \in Drivers |->
          IF state[p] = "kWaitForProbe" /\ future[p] = "waiting"
          THEN "ready" ELSE future[p]]
    /\ UNCHANGED <<state, at, input, pending, table, hasTable, spiller, stateCleared,
                   joinHasNullKeys, noMoreInput_, isInputFromSpill, spillLevel,
                   exceededMaxSpillLevelLimit, closed, failed>>
    /\ UNCHANGED <<peersFinished, bridgeTable, numSetHashTable, numMerges,
                   antiJoinHasNullKeys>>
    /\ UNCHANGED <<participantVars, reclaimVars, joinVars, fitVars, handOutVars>>

\* close(), lines 1166-1178: under mutex_ the operator's state is let go.
close(d) ==
    /\ Live(d)
    /\ closed' = [closed EXCEPT ![d] = TRUE]
    /\ stateCleared' = [stateCleared EXCEPT ![d] = TRUE]
    /\ spiller' = [spiller EXCEPT ![d] = NoSpiller]
    /\ table' = [table EXCEPT ![d] = {}]
    /\ hasTable' = [hasTable EXCEPT ![d] = FALSE]
    /\ UNCHANGED <<state, at, input, pending, joinHasNullKeys, noMoreInput_,
                   isInputFromSpill, spillLevel, exceededMaxSpillLevelLimit, future,
                   failed>>
    /\ UNCHANGED <<participantVars, bridgeVars, reclaimVars, joinVars, fitVars, handOutVars>>

\* ------------------------------------------------------------------ HashBuild::reclaim
\* Task::findPeerOperators(pipelineId, this): the build operators of the
\* pipeline's drivers that are still there, this one included.
findPeerOperators == {p \in Drivers : ~closed[p]}

\* spillHashJoinTable(spillers, config) and lines 1145-1148: every peer's table
\* content is spilled through its spiller (HashBuildSpiller::spill(), lines
\* 1203-1206, sets spillTriggered_) and the table is cleared.
spillAllPeers ==
    /\ spiller' = [p \in Drivers |->
          IF p \in findPeerOperators
          THEN [spiller[p] EXCEPT !.rows = @ \cup table[p], !.spillTriggered = TRUE]
          ELSE spiller[p]]
    /\ table' = [p \in Drivers |-> IF p \in findPeerOperators THEN {} ELSE table[p]]

\* A reclaim that does not look at its peers' states before spilling: the
\* peers that can be spilled are, the others are left as they are.
HashBuildReclaimNoPeerCheck(d, pauseRequested) ==
    /\ canSpillConfig
    /\ ~closed[d]
    /\ numReclaimCalls < MaxReclaims
    /\ numReclaimCalls' = numReclaimCalls + 1
    /\ IF nonReclaimableSection(d)
       THEN /\ reclaimResult' = [op |-> d, result |-> "checkFailed"]
            /\ UNCHANGED <<spiller, table, numNonReclaimableAttempts>>
       ELSE IF exceededMaxSpillLevelLimit[d]
       THEN /\ reclaimResult' = [op |-> d, result |-> "exceededMaxSpillLevel"]
            /\ UNCHANGED <<spiller, table, numNonReclaimableAttempts>>
       ELSE IF nonReclaimableState(d)
       THEN /\ reclaimResult' = [op |-> d, result |-> "nonReclaimable"]
            /\ numNonReclaimableAttempts' = numNonReclaimableAttempts + 1
            /\ UNCHANGED <<spiller, table>>
       ELSE IF ~pauseRequested
       THEN /\ reclaimResult' = [op |-> d, result |-> "pauseCheckFailed"]
            /\ UNCHANGED <<spiller, table, numNonReclaimableAttempts>>
       ELSE /\ reclaimResult' = [op |-> d, result |-> "spilled"]
            /\ spiller' = [p \in Drivers |->
                  IF p \in findPeerOperators /\ ~nonReclaimableState(p)
                  THEN [spiller[p] EXCEPT !.rows = @ \cup table[p],
                                          !.spillTriggered = TRUE]
                  ELSE spiller[p]]
            /\ table' = [p \in Drivers |->
                  IF p \in findPeerOperators /\ ~nonReclaimableState(p)
                  THEN {} ELSE table[p]]
            /\ UNCHANGED numNonReclaimableAttempts
    /\ UNCHANGED <<state, at, input, pending, hasTable, stateCleared, joinHasNullKeys,
                   noMoreInput_, isInputFromSpill, spillLevel,
                   exceededMaxSpillLevelLimit, future, closed, failed>>
    /\ UNCHANGED <<participantVars, bridgeVars, joinVars, fitVars, handOutVars>>

\* A reclaim that does not check that the task is paused.
HashBuildReclaimNoPauseCheck(d, pauseRequested) ==
    /\ canSpillConfig
    /\ ~closed[d]
    /\ numReclaimCalls < MaxReclaims
    /\ numReclaimCalls' = numReclaimCalls + 1
    /\ IF nonReclaimableSection(d)
       THEN /\ reclaimResult' = [op |-> d, result |-> "checkFailed"]
            /\ UNCHANGED <<spiller, table, numNonReclaimableAttempts>>
       ELSE IF exceededMaxSpillLevelLimit[d]
       THEN /\ reclaimResult' = [op |-> d, result |-> "exceededMaxSpillLevel"]
            /\ UNCHANGED <<spiller, table, numNonReclaimableAttempts>>
       ELSE IF nonReclaimableState(d)
       THEN /\ reclaimResult' = [op |-> d, result |-> "nonReclaimable"]
            /\ numNonReclaimableAttempts' = numNonReclaimableAttempts + 1
            /\ UNCHANGED <<spiller, table>>
       ELSE IF \E p \in findPeerOperators : nonReclaimableState(p)
       THEN /\ reclaimResult' = [op |-> d, result |-> "peerNonReclaimable"]
            /\ numNonReclaimableAttempts' = numNonReclaimableAttempts + 1
            /\ UNCHANGED <<spiller, table>>
       ELSE /\ reclaimResult' = [op |-> d, result |-> "spilled"]
            /\ spillAllPeers
            /\ UNCHANGED numNonReclaimableAttempts
    /\ UNCHANGED <<state, at, input, pending, hasTable, stateCleared, joinHasNullKeys,
                   noMoreInput_, isInputFromSpill, spillLevel,
                   exceededMaxSpillLevelLimit, future, closed, failed>>
    /\ UNCHANGED <<participantVars, bridgeVars, joinVars, fitVars, handOutVars>>

\* HashBuild::reclaim, lines 1074-1150, called by the memory arbitrator on
\* operator d, with pauseRequested the answer of task->pauseRequested(): a
\* failed check when the operator is in a non-reclaimable section (line 1081);
\* a logged return when the spill level limit is exceeded (1085-1096); a
\* counted and logged return when the operator is in a non-reclaimable state
\* (1100-1113); a failed check when the task is not paused (1116); a counted
\* and logged return when a peer is in a non-reclaimable state (1120-1135);
\* otherwise every peer's table is spilled and cleared (1137-1149).
HashBuildReclaim(d, pauseRequested) ==
    /\ canSpillConfig
    /\ ~closed[d]
    /\ numReclaimCalls < MaxReclaims
    /\ numReclaimCalls' = numReclaimCalls + 1
    /\ IF nonReclaimableSection(d)
       THEN /\ reclaimResult' = [op |-> d, result |-> "checkFailed"]
            /\ UNCHANGED <<spiller, table, numNonReclaimableAttempts>>
       ELSE IF exceededMaxSpillLevelLimit[d]
       THEN /\ reclaimResult' = [op |-> d, result |-> "exceededMaxSpillLevel"]
            /\ UNCHANGED <<spiller, table, numNonReclaimableAttempts>>
       ELSE IF nonReclaimableState(d)
       THEN /\ reclaimResult' = [op |-> d, result |-> "nonReclaimable"]
            /\ numNonReclaimableAttempts' = numNonReclaimableAttempts + 1
            /\ UNCHANGED <<spiller, table>>
       ELSE IF ~pauseRequested
       THEN /\ reclaimResult' = [op |-> d, result |-> "pauseCheckFailed"]
            /\ UNCHANGED <<spiller, table, numNonReclaimableAttempts>>
       ELSE IF \E p \in findPeerOperators : nonReclaimableState(p)
       THEN /\ reclaimResult' = [op |-> d, result |-> "peerNonReclaimable"]
            /\ numNonReclaimableAttempts' = numNonReclaimableAttempts + 1
            /\ UNCHANGED <<spiller, table>>
       ELSE /\ reclaimResult' = [op |-> d, result |-> "spilled"]
            /\ spillAllPeers
            /\ UNCHANGED numNonReclaimableAttempts
    /\ UNCHANGED <<state, at, input, pending, hasTable, stateCleared, joinHasNullKeys,
                   noMoreInput_, isInputFromSpill, spillLevel,
                   exceededMaxSpillLevelLimit, future, closed, failed>>
    /\ UNCHANGED <<participantVars, bridgeVars, joinVars, fitVars, handOutVars>>

\* ------------------------------------------------------------------ JoinSpec
NextJoin ==
    \/ \E d \in Drivers : \E batch \in Batches(d) : addInput(d, batch)
    \/ \E d \in Drivers : ensureInputFits(d)
    \/ \E d \in Drivers, shouldYield \in BOOLEAN : addInputStore(d, shouldYield)
    \/ \E d \in Drivers : noMoreInput(d)
    \/ \E d \in Drivers : processSpillInput(d)
    \/ \E d \in Drivers : finishHashBuild(d)
    \/ \E d \in Drivers : ensureTableFits(d)
    \/ \E d \in Drivers : adoptPeers(d)
    \/ \E d \in Drivers : fulfilPromises(d)
    \/ \E d \in Drivers : isBlocked(d)
    \/ \E d \in Drivers : isBlockedYield(d)
    \/ \E d \in Drivers : isBlockedFinished(d)
    \/ \E d \in Drivers : checkRunning(d)
    \/ \E next \in SpillPartitions \cup {{}} : probeFinishes(next)
    \/ \E d \in Drivers : close(d)
    \/ \E d \in Drivers, pauseRequested \in BOOLEAN : HashBuildReclaim(d, pauseRequested)

JoinSpec == InitJoin /\ [][NextJoin]_vars

\* ------------------------------------------------------------------ FairJoin
\* The drivers of a join whose operators are not closed before they finish and
\* are not called once finished.  Every driver goes on with its operator: it
\* delivers its input to the end, leaves every method it has entered, and
\* calls isBlocked again once the future it was handed is fulfilled; the probe
\* side finishes with every table it is given and answers the operators
\* waiting for spill input.  Reclaims are not forced.
NextFairJoin ==
    \/ \E d \in Drivers : \E batch \in Batches(d) : addInput(d, batch)
    \/ \E d \in Drivers : ensureInputFits(d)
    \/ \E d \in Drivers, shouldYield \in BOOLEAN : addInputStore(d, shouldYield)
    \/ \E d \in Drivers : noMoreInput(d)
    \/ \E d \in Drivers : processSpillInput(d)
    \/ \E d \in Drivers : finishHashBuild(d)
    \/ \E d \in Drivers : ensureTableFits(d)
    \/ \E d \in Drivers : adoptPeers(d)
    \/ \E d \in Drivers : fulfilPromises(d)
    \/ \E d \in Drivers : isBlocked(d)
    \/ \E d \in Drivers : isBlockedYield(d)
    \/ \E next \in SpillPartitions \cup {{}} : probeFinishes(next)
    \/ \E d \in Drivers, pauseRequested \in BOOLEAN : HashBuildReclaim(d, pauseRequested)

FairJoin ==
    /\ InitJoin
    /\ [][NextFairJoin]_vars
    /\ \A d \in 1..NumDrivers :
        /\ WF_vars(\E batch \in Batches(d) : addInput(d, batch))
        /\ WF_vars(\E shouldYield \in BOOLEAN : addInputStore(d, shouldYield))
        /\ WF_vars(noMoreInput(d))
        /\ WF_vars(processSpillInput(d))
        /\ WF_vars(finishHashBuild(d))
        /\ WF_vars(ensureTableFits(d))
        /\ WF_vars(adoptPeers(d))
        /\ WF_vars(fulfilPromises(d))
        /\ WF_vars(isBlocked(d))
        /\ WF_vars(isBlockedYield(d))
    /\ WF_vars(\E next \in SpillPartitions \cup {{}} : probeFinishes(next))

\* ------------------------------------------------------------------ setState
\* HashBuild::State.
States == {"kRunning", "kYield", "kWaitForBuild", "kWaitForProbe", "kFinish"}

\* A checkStateTransition without the VELOX_CHECK_NE of line 1018.
checkStateTransitionAllowingSame(from, to) ==
    CASE to = "kRunning" ->
            IF ~canSpillConfig THEN from = "kWaitForBuild" ELSE from # "kFinish"
      [] to \in {"kWaitForBuild", "kWaitForProbe", "kFinish"} -> from = "kRunning"
      [] OTHER -> FALSE

\* checkStateTransition, lines 1017-1038: TRUE when no check fails for the
\* change of state_ from `from` to `to`; kYield as the new state runs into
\* VELOX_UNREACHABLE.
checkStateTransition(from, to) ==
    /\ from # to
    /\ CASE to = "kRunning" ->
               IF ~canSpillConfig THEN from = "kWaitForBuild" ELSE from # "kFinish"
         [] to \in {"kWaitForBuild", "kWaitForProbe", "kFinish"} -> from = "kRunning"
         [] OTHER -> FALSE

\* setState, lines 1012-1015, called on operator d with any new state: the
\* check throws before state_ is assigned.
setState(d, s) ==
    /\ ~failed[d]
    /\ IF checkStateTransition(state[d], s)
       THEN state' = [state EXCEPT ![d] = s] /\ UNCHANGED failed
       ELSE failed' = [failed EXCEPT ![d] = TRUE] /\ UNCHANGED state
    /\ UNCHANGED <<at, input, pending, table, hasTable, spiller, stateCleared,
                   joinHasNullKeys, noMoreInput_, isInputFromSpill, spillLevel,
                   exceededMaxSpillLevelLimit, future, closed>>
    /\ UNCHANGED <<participantVars, bridgeVars, reclaimVars, joinVars, fitVars, handOutVars>>

\* processSpillInput, lines 894-897: the driver asks the operator to yield in
\* the middle of its spill input, and state_ is assigned without setState.
processSpillInputYield(d) ==
    /\ ~failed[d]
    /\ state[d] = "kRunning" /\ isInputFromSpill[d]
    /\ state' = [state EXCEPT ![d] = "kYield"]
    /\ future' = [future EXCEPT ![d] = "ready"]
    /\ UNCHANGED <<at, input, pending, table, hasTable, spiller, stateCleared,
                   joinHasNullKeys, noMoreInput_, isInputFromSpill, spillLevel,
                   exceededMaxSpillLevelLimit, closed, failed>>
    /\ UNCHANGED <<participantVars, bridgeVars, reclaimVars, joinVars, fitVars, handOutVars>>

\* Operators in any of their states, reading spill input or not; without
\* spilling an operator is never in kYield or kWaitForProbe nor reads spill
\* input.
InitTransition ==
    /\ InitParticipant
    /\ InitThreads(0)
    /\ capacity = 0 /\ reservedBytes = 0 /\ peakBytes = 0
    /\ config = NoPolicy /\ tsanBuild = FALSE
    /\ joinType = "inner" /\ nullKeyRows = {}
    /\ canSpillConfig \in BOOLEAN
    /\ state \in [1..NumDrivers ->
                    IF canSpillConfig THEN States
                    ELSE {"kRunning", "kWaitForBuild", "kFinish"}]
    /\ isInputFromSpill \in [1..NumDrivers -> IF canSpillConfig THEN BOOLEAN ELSE {FALSE}]
    /\ \A d \in 1..NumDrivers : state[d] = "kYield" => isInputFromSpill[d]
    /\ at = [d \in 1..NumDrivers |-> "off"]
    /\ input = [d \in 1..NumDrivers |-> {}]
    /\ pending = [d \in 1..NumDrivers |-> {}]
    /\ table = [d \in 1..NumDrivers |-> {}]
    /\ hasTable = [d \in 1..NumDrivers |-> TRUE]
    /\ spiller = [d \in 1..NumDrivers |-> NoSpiller]
    /\ stateCleared = [d \in 1..NumDrivers |-> FALSE]
    /\ joinHasNullKeys = [d \in 1..NumDrivers |-> FALSE]
    /\ noMoreInput_ = [d \in 1..NumDrivers |-> FALSE]
    /\ spillLevel = [d \in 1..NumDrivers |-> 0]
    /\ exceededMaxSpillLevelLimit = [d \in 1..NumDrivers |-> FALSE]
    /\ future = [d \in 1..NumDrivers |-> "none"]
    /\ closed = [d \in 1..NumDrivers |-> FALSE]
    /\ failed = [d \in 1..NumDrivers |-> FALSE]
    /\ inIsBlocked = [d \in 1..NumDrivers |-> FALSE]
    /\ futureLeft = [d \in 1..NumDrivers |-> FALSE]
    /\ fit = NoFit
    /\ peersFinished = {} /\ bridgeTable = {} /\ bridgeSpill = {}
    /\ numSetHashTable = 0 /\ numMerges = 0 /\ antiJoinHasNullKeys = FALSE
    /\ probeFinished = FALSE /\ restoring = {}
    /\ numReclaimCalls = 0 /\ reclaimResult = [op |-> 0, result |-> "none"]
    /\ numNonReclaimableAttempts = 0

NextTransition ==
    \/ \E d \in Drivers : \E s \in States : setState(d, s)
    \/ \E d \in Drivers : processSpillInputYield(d)

TransitionSpec == InitTransition /\ [][NextTransition]_vars

\* ------------------------------------------------------------------ GrowSpec
\* maxGrowCapacity(), lines 126-130.
maxGrowCapacity == maxCapacity - capacity

\* minGrowCapacity(), lines 132-138.
minGrowCapacity ==
    IF capacity >= config.minCapacity THEN 0 ELSE config.minCapacity - capacity

\* A checkCapacityGrowth that lets every request through.
checkCapacityGrowthAlways(requestBytes) == TRUE

\* checkCapacityGrowth(requestBytes), lines 189-191.
checkCapacityGrowth(requestBytes) == maxGrowCapacity >= requestBytes

\* The arbitrator takes a request of thread t's operation to grow the pool by
\* requestBytes: a request that fails checkCapacityGrowth is refused on the
\* spot, any other goes through startArbitration.
growCapacity(t, requestBytes) ==
    /\ pc[t] = "idle"
    /\ calls < MaxRequests
    /\ calls' = calls + 1
    /\ callId' = [callId EXCEPT ![t] = calls + 1]
    /\ target' = [target EXCEPT ![t] = requestBytes]
    /\ UNCHANGED ret
    /\ IF checkCapacityGrowth(requestBytes)
       THEN /\ err' = [err EXCEPT ![t] = "none"]
            /\ startArbitration(t)
       ELSE /\ err' = [err EXCEPT ![t] = "rejected"]
            /\ UNCHANGED <<pc, admissionVars, numRequests, lockVars, aborted, statVars,
                           poolVars, buildVars, targetVars, hashBuildVars>>

\* NumOps operations ask the arbitrator for growth of a pool of any capacity.
InitGrow ==
    /\ InitShared
    /\ InitThreads(NumOps)
    /\ capacity \in 0..MaxCapacity
    /\ reservedBytes = 0 /\ peakBytes = 0
    /\ config = NoPolicy /\ tsanBuild = FALSE

NextGrow ==
    \/ \E t \in Threads, requestBytes \in 1..(MaxCapacity + 1) : growCapacity(t, requestBytes)
    \/ \E t \in Threads : startArbitrationResume(t)
    \/ \E t \in Threads : finishArbitration(t)
    \/ \E t \in Threads : finishArbitrationSetValue(t)

GrowSpec == InitGrow /\ [][NextGrow]_vars

\* ------------------------------------------------------------------ TargetsSpec
\* getGrowTargets, lines 198-208: the maxGrowBytes chosen before the clamps.
\* A getGrowTargets that doubles whenever the capacity is below the limit.
chooseMaxGrowBytesBelowLimit(requestBytes) ==
    IF config.fastExponentialGrowthCapacityLimit = 0 /\ config.slowCapacityGrowRatio = 0
    THEN requestBytes
    ELSE IF capacity < config.fastExponentialGrowthCapacityLimit
         THEN capacity
         ELSE (capacity * config.slowCapacityGrowRatio) \div 100

chooseMaxGrowBytes(requestBytes) ==
    IF config.fastExponentialGrowthCapacityLimit = 0 /\ config.slowCapacityGrowRatio = 0
    THEN requestBytes
    ELSE IF capacity * 2 <= config.fastExponentialGrowthCapacityLimit
         THEN capacity
         ELSE (capacity * config.slowCapacityGrowRatio) \div 100

\* A clamp that leaves out the cap at maxGrowCapacity().
clampMaxGrowBytesNoCap(requestBytes, chosenBytes) ==
    Max(Max(requestBytes, chosenBytes), minGrowCapacity)

\* getGrowTargets, lines 209-212: the clamps applied to the chosen maxGrowBytes.
clampMaxGrowBytes(requestBytes, chosenBytes) ==
    Min(maxGrowCapacity, Max(Max(requestBytes, chosenBytes), minGrowCapacity))

\* getGrowTargets(requestBytes, maxGrowBytes, minGrowBytes) up to line 208: the
\* out-parameter maxGrowBytes gets the chosen value.
getGrowTargets(t, requestBytes) ==
    /\ pc[t] = "idle"
    /\ Begin(t)
    /\ pc' = [pc EXCEPT ![t] = "getGrowTargets_clamp"]
    /\ target' = [target EXCEPT ![t] = requestBytes]
    /\ err' = [err EXCEPT ![t] = "none"]
    /\ maxGrowBytes' = [maxGrowBytes EXCEPT ![t] = chooseMaxGrowBytes(requestBytes)]
    /\ UNCHANGED <<minGrowBytes, admissionVars, numRequests, lockVars, aborted, statVars,
                   poolVars, buildVars, hashBuildVars>>

\* Lines 209-215: the clamps, then the two checks; a failed check throws with
\* the out-parameters already written.
getGrowTargetsClamp(t) ==
    /\ pc[t] = "getGrowTargets_clamp"
    /\ minGrowBytes' = [minGrowBytes EXCEPT ![t] = minGrowCapacity]
    /\ maxGrowBytes' = [maxGrowBytes EXCEPT ![t] =
                           clampMaxGrowBytes(target[t], maxGrowBytes[t])]
    /\ err' = [err EXCEPT ![t] =
                 IF minGrowBytes'[t] <= maxGrowBytes'[t] /\ target[t] <= maxGrowBytes'[t]
                 THEN "none" ELSE "checkFailed"]
    /\ pc' = [pc EXCEPT ![t] = "idle"]
    /\ UNCHANGED <<callId, ret, target, calls, admissionVars, numRequests, lockVars,
                   aborted, statVars, poolVars, buildVars, hashBuildVars>>

\* The Configs the constructor accepts, with the growth policy off or on: a
\* fast-growth limit up to twice maxCapacity, a slow ratio of a half or of two.
GrowConfigs ==
    {c \in [minCapacity : 0..MaxCapacity,
            fastExponentialGrowthCapacityLimit : 0..(2 * MaxCapacity),
            slowCapacityGrowRatio : {0, 50, 200}, minFreeCapacity : {0},
            minFreeCapacityRatio : {0}, minReclaimBytes : {0},
            minReclaimPct : {0}] : ConfigValid(c)}

\* One thread asks for the grow targets of a pool of any capacity, for any
\* request, under any growth policy.
InitTargets ==
    /\ InitShared
    /\ InitThreads(1)
    /\ config \in GrowConfigs
    /\ capacity \in 0..MaxCapacity
    /\ reservedBytes = 0 /\ peakBytes = 0
    /\ tsanBuild = FALSE

NextTargets ==
    \/ \E t \in Threads, requestBytes \in 0..(MaxCapacity + 1) : getGrowTargets(t, requestBytes)
    \/ \E t \in Threads : getGrowTargetsClamp(t)

TargetsSpec == InitTargets /\ [][NextTargets]_vars

\* ------------------------------------------------------------------ AdmissionSpec
\* A finishArbitration without the check of line 248: called by thread t with
\* an operation that is not running, it hands runningOp_ over all the same.
finishArbitrationUnchecked(t, op) ==
    /\ pc[t] = "idle"
    /\ stateLock = 0
    /\ op # runningOp
    /\ IF waitOps # <<>>
       THEN /\ resumePromise' = [resumePromise EXCEPT ![t] = Head(waitOps)]
            /\ runningOp' = Head(waitOps)
            /\ waitOps' = Tail(waitOps)
            /\ pc' = [pc EXCEPT ![t] = "finish_resume"]
       ELSE /\ runningOp' = 0
            /\ UNCHANGED <<pc, waitOps, resumePromise>>
    /\ err' = [err EXCEPT ![t] = "none"]
    /\ UNCHANGED <<callId, ret, target, calls, promise, arrivals, numRequests, lockVars,
                   aborted, statVars, poolVars, buildVars, targetVars, hashBuildVars>>

\* finishArbitration(op), lines 244-248, called by thread t (which is in no
\* other call) with an operation that is not runningOp_: one that waits, one
\* that has finished or one that never started.  VELOX_CHECK_EQ throws under
\* stateLock_, which the unwinding releases; nothing has been assigned.
finishArbitrationNotRunning(t, op) ==
    /\ pc[t] = "idle"
    /\ stateLock = 0
    /\ op # runningOp
    /\ err' = [err EXCEPT ![t] = "checkFailed"]
    /\ UNCHANGED <<callId, ret, target, calls, admissionVars, pc, numRequests, lockVars,
                   aborted, statVars, poolVars, buildVars, targetVars, hashBuildVars>>

\* The operations of SpecArb, and finishArbitration called out of turn.
NextAdmission ==
    \/ \E t \in Threads : ArbStart(t)
    \/ \E t \in Threads : startArbitrationResume(t)
    \/ \E t \in Threads : finishArbitration(t)
    \/ \E t \in Threads : finishArbitrationSetValue(t)
    \/ \E t \in Threads, op \in Threads : finishArbitrationNotRunning(t, op)

AdmissionSpec == InitArb /\ [][NextAdmission]_vars

\* ------------------------------------------------------------------ FitsSpec
\* ensureInputFits, lines 427-510, followed through one call with its numbers.
\* The sizes come from the row container, the hash table, the batch and the
\* pool; they are inputs here, as are the answer of maybeReserve and whether
\* the arbitration it ran spilled this operator.
Pct(bytes, pct) == (bytes * pct) \div 100

\* lines 462-466: the estimated increment of the batch.
incrementBytes(f) ==
    (IF f.numRows = 0 THEN f.flatBytes * 2 ELSE f.sizeIncrement) + f.tableIncrementBytes

\* A target without the doubling of the increment.
targetIncrementBytesNotDoubled(f) ==
    Max(incrementBytes(f), Pct(f.currentUsage, f.spillableReservationGrowthPct))

\* lines 489-491: the bytes asked of the pool.
targetIncrementBytes(f) ==
    Max(incrementBytes(f) * 2, Pct(f.currentUsage, f.spillableReservationGrowthPct))

\* line 430: nothing is reserved for an operator that cannot spill, has no
\* spiller, or spills its input directly.
NoReservationNeeded(f) == ~f.canSpill \/ f.spiller \in {"null", "spillTriggered"}

\* lines 457-484: the reservation at hand is at least the minimum and covers
\* the batch.
SufficientReservation(f) ==
    /\ f.availableReservation >= Pct(f.currentUsage, f.minSpillableReservationPct)
    /\ f.enoughFreeSpace \/ f.availableReservation > 2 * incrementBytes(f)

\* lines 430-492: up to the reservation.
ensureInputFitsBytes ==
    /\ fit.pos = "ensureInputFits"
    /\ fit' =
         IF NoReservationNeeded(fit) THEN [fit EXCEPT !.pos = "returned"]
         ELSE IF fit.numRows # 0 /\ fit.testingTriggerSpill
         THEN [fit EXCEPT !.pos = "testingRunArbitration", !.reclaimable = TRUE]
         ELSE IF SufficientReservation(fit) THEN [fit EXCEPT !.pos = "returned"]
         ELSE [fit EXCEPT !.pos = "maybeReserve", !.reclaimable = TRUE,
                          !.asked = TRUE, !.requested = targetIncrementBytes(fit)]
    /\ UNCHANGED <<participantVars, operatorVars, bridgeVars, reclaimVars, joinVars,
                   handOutVars>>

\* lines 450-454: the test-only path runs the arbitration and returns.
testingRunArbitration(selfSpilled) ==
    /\ fit.pos = "testingRunArbitration"
    /\ fit' = [fit EXCEPT !.pos = "returned", !.reclaimable = FALSE,
                          !.spiller = IF selfSpilled THEN "spillTriggered" ELSE @]
    /\ UNCHANGED <<participantVars, operatorVars, bridgeVars, reclaimVars, joinVars,
                   handOutVars>>

\* lines 493-509: the pool grants or denies the bytes, and the arbitration it
\* may have run may have spilled this operator, which is in a reclaimable
\* section; granted bytes are released again when it did, a denial is logged.
maybeReserve(granted, selfSpilled) ==
    /\ fit.pos = "maybeReserve"
    /\ fit' = [fit EXCEPT
          !.pos = "returned", !.reclaimable = FALSE,
          !.granted = granted,
          !.spiller = IF selfSpilled THEN "spillTriggered" ELSE @,
          !.released = granted /\ selfSpilled,
          !.warned = ~granted,
          !.availableReservation =
              IF ~granted THEN @ ELSE IF selfSpilled THEN 0 ELSE @ + fit.requested]
    /\ UNCHANGED <<participantVars, operatorVars, bridgeVars, reclaimVars, joinVars,
                   handOutVars>>

\* The calls followed: every spill setting, pool usage and batch size below.
FitInputs ==
    [pos : {"ensureInputFits"},
     canSpill : BOOLEAN, spiller : {"null", "set", "spillTriggered"},
     numRows : {0, 1}, testingTriggerSpill : BOOLEAN,
     currentUsage : {0, 10, 40},
     minSpillableReservationPct : {0, 50},
     spillableReservationGrowthPct : {0, 25},
     availableReservation : {0, 3, 20},
     flatBytes : {0, 1}, sizeIncrement : {0, 2}, tableIncrementBytes : {0, 1},
     enoughFreeSpace : BOOLEAN,
     reclaimable : {FALSE}, asked : {FALSE}, requested : {0}, granted : {FALSE},
     released : {FALSE}, warned : {FALSE}]

InitFits ==
    /\ InitParticipant
    /\ InitNoOperator
    /\ InitThreads(0)
    /\ capacity = 0 /\ reservedBytes = 0 /\ peakBytes = 0
    /\ config = NoPolicy /\ tsanBuild = FALSE
    /\ fit \in FitInputs

NextFits ==
    \/ ensureInputFitsBytes
    \/ \E selfSpilled \in BOOLEAN : testingRunArbitration(selfSpilled)
    \/ \E granted \in BOOLEAN, selfSpilled \in BOOLEAN : maybeReserve(granted, selfSpilled)

FitsSpec == InitFits /\ [][NextFits]_vars

\* ------------------------------------------------------------------ C1 - C4
\* An operation is running from its return from startArbitration to its call of
\* finishArbitration.
Running(t) == pc[t] = "running"

\* C1: at most one operation has returned from startArbitration without having
\* called finishArbitration, and it is the participant's runningOp.
C1_AtMostOneRunning ==
    /\ Cardinality({t \in Threads : Running(t)}) <= 1
    /\ \A t \in Threads : Running(t) => runningOp = t

\* A resumed waiter runs while another operation still waits.
C1_Witness ==
    \E t \in Threads : Running(t) /\ promise[t] = 1 /\ waitOps # <<>>

\* C2: admission is FIFO: an operation that returns from its wait in
\* startArbitration is the earliest enqueued of the operations that have not yet
\* resumed.
C2_FifoAdmission ==
    [][\A t \in Threads :
          (pc[t] = "start_wait" /\ pc'[t] = "running") => t = Head(arrivals)]_vars

\* A was enqueued before B while a third operation ran; A has been resumed and B
\* still waits.
C2_Witness ==
    \E a, b \in Threads :
        /\ a # b /\ arrivals = <<b>> /\ waitOps = <<b>>
        /\ Running(a) /\ promise[a] = 1 /\ numRequests = 3

\* C3: the step of finishArbitration that changes runningOp hands the promise of
\* the head of waitOps, and of nobody else, to the finishing thread and makes the
\* head the running operation, or clears runningOp when nobody waits; a promise
\* is fulfilled once, by a thread other than its waiter, for a waiter that has
\* been made the running operation; and a waiter resumes on a fulfilled promise.
C3_FinishStep ==
    (runningOp # 0 /\ runningOp' # runningOp) =>
        IF waitOps # <<>>
        THEN /\ runningOp' = Head(waitOps)
             /\ waitOps' = Tail(waitOps)
             /\ \E t \in Threads :
                    resumePromise' = [resumePromise EXCEPT ![t] = Head(waitOps)]
        ELSE /\ runningOp' = 0
             /\ UNCHANGED <<waitOps, resumePromise>>

C3_FulfilStep ==
    \A o \in Threads :
        promise'[o] > promise[o] =>
            /\ promise'[o] = 1
            /\ pc[o] = "start_wait" /\ runningOp = o
            /\ \E t \in Threads : t # o /\ resumePromise[t] = o /\ pc'[t] = "idle"
            /\ \A o2 \in Threads \ {o} : promise'[o2] = promise[o2]

C3_ResumeStep ==
    \A o \in Threads :
        (pc[o] = "start_wait" /\ pc'[o] # "start_wait") => promise[o] = 1

C3_NoLostWakeup ==
    \A o \in Threads :
        (pc[o] = "start_wait" /\ runningOp = o) =>
            (promise[o] = 1) # (\E t \in Threads : resumePromise[t] = o)

C3_FinishWakesHead ==
    /\ []C3_NoLostWakeup
    /\ [][C3_FinishStep /\ C3_FulfilStep /\ C3_ResumeStep]_vars

\* A finishing thread holds the promise of the head while another waiter stays
\* queued.
C3_Witness ==
    \E t, o \in Threads :
        /\ pc[t] = "finish_resume" /\ resumePromise[t] = o
        /\ runningOp = o /\ pc[o] = "start_wait" /\ Len(waitOps) = 1

\* C4: under FairArb every operation waiting in startArbitration eventually
\* returns from it.
C4_NoStarvation ==
    \A t \in 1..NumOps : (pc[t] = "start_wait") ~> Running(t)

\* The last of two waiters has been resumed.
C4_Witness ==
    \E t \in Threads :
        Running(t) /\ promise[t] = 1 /\ waitOps = <<>> /\ numRequests >= 3

\* ------------------------------------------------------------------ C5 - C10
\* Thread t is inside a call into the pool that changes it: pool_->reclaim
\* (line 297), pool_->shrink (lines 332, 336) or pool_->abort (line 364).
InPoolSection(t) ==
    pc[t] \in {"reclaim_pool", "reclaim_shrink", "shrink_pool", "abort_pool",
               "abort_shrink"}

\* C5: at most one thread at a time is inside the pool reclaim / pool shrink /
\* pool abort section of the participant.
C5_SideEffectsNeverOverlap ==
    Cardinality({t \in Threads : InPoolSection(t)}) <= 1

\* C6: a reclaim whose wait for the reclaim lock timed out leaves the
\* participant usable: no step of that call marks the participant aborted, asks
\* the pool to abort, or changes the capacity.
C6_TimeoutLeavesParticipantUsable ==
    [][\A t \in Threads :
          (err[t] = "timeout" /\ pc[t] # "idle" /\ pc'[t] # pc[t]) =>
              /\ aborted' = aborted
              /\ numPoolAborts' = numPoolAborts
              /\ capacity' = capacity]_vars

\* The wait of t for the reclaim lock is over: t's call has returned, or t has
\* the lock and is inside pool_->reclaim (which need not return).
DoneWaiting(t) == pc[t] \in {"idle", "reclaim_pool"}

\* C7 as claimed: a reclaim waiting for the reclaim lock never waits for ever,
\* also when the lock's holder never releases it: it gets the lock or its call
\* returns.
C7_ReclaimEventuallyReturns ==
    \A t \in 1..NumThreads : (pc[t] = "reclaim_lock") ~> DoneWaiting(t)

\* C7 as amended: in a build without TSAN_BUILD a reclaim waiting for the
\* reclaim lock never waits for ever, also when the lock's holder never
\* releases it: it gets the lock or its call returns.
C7_TimedReclaimEventuallyReturns ==
    \A t \in 1..NumThreads :
        (pc[t] = "reclaim_lock" /\ ~tsanBuild) ~> DoneWaiting(t)

\* A reclaim has timed out and returned while the holder of the reclaim lock is
\* still inside pool_->reclaim.
C7_Witness ==
    \E t, u \in Threads :
        /\ pc[t] = "idle" /\ err[t] = "timeout"
        /\ pc[u] = "reclaim_pool" /\ reclaimMutex = u

\* Thread t is blocked, or about to block, on reclaimMutex_ (lines 290, 345).
BlockedOnReclaimLock(t) == pc[t] \in {"reclaim_lock", "abort_lock"}

\* Thread t is inside a call and blocked on stateLock_ (lines 323, 354, 374).
BlockedOnStateLock(t) ==
    /\ pc[t] \in {"abort_state", "abort_shrink_lock", "reclaim_shrink_lock"}
    /\ stateLock \notin {0, t}

\* C8: a thread blocked on the reclaim lock does not hold the state lock; a
\* thread holding both took the reclaim lock first (it is in the shrink of
\* reclaim or of abort); and no thread holding the reclaim lock waits for the
\* state lock held by a thread waiting for the reclaim lock.
C8_NoNestedLockDeadlock ==
    /\ \A t \in Threads : BlockedOnReclaimLock(t) => stateLock # t
    /\ \A t \in Threads :
          (stateLock = t /\ reclaimMutex = t) =>
              pc[t] \in {"reclaim_shrink", "abort_shrink"}
    /\ ~ \E t, u \in Threads :
          /\ reclaimMutex = t /\ BlockedOnStateLock(t)
          /\ stateLock = u /\ BlockedOnReclaimLock(u)

\* One thread holds both locks while another is blocked on the reclaim lock.
C8_Witness ==
    \E t, u \in Threads :
        stateLock = t /\ reclaimMutex = t /\ BlockedOnReclaimLock(u)

\* The exception of t's call was thrown by pool_->reclaim or by the shrink
\* that follows it.
ReclaimThrew(t) == err[t] \in {"reclaim", "shrink"}

\* This step is the return of t's call.
Returns(t) == pc[t] # "idle" /\ pc'[t] = "idle"

\* C9 as claimed: a reclaim in which the pool's reclaim or the following shrink
\* threw returns with the participant marked aborted, the pool asked to abort
\* with that exception, and the capacity freed by the abort as its result.
C9_ReclaimExceptionAborts ==
    [][\A t \in Threads :
          (Returns(t) /\ ReclaimThrew(t)') =>
              /\ aborted'
              /\ abortError' = callId[t]
              /\ ret'[t] = capacity - capacity']_vars

\* C9 as amended: such a reclaim returns with the participant marked aborted
\* and the capacity freed by the abort as its result; the pool has been asked to
\* abort with that exception, unless the participant was already aborted, and
\* then the call changes nothing and returns 0.
C9_ReclaimExceptionAbortsOnce ==
    [][\A t \in Threads :
          (Returns(t) /\ ReclaimThrew(t)') =>
              /\ aborted'
              /\ ret'[t] = capacity - capacity'
              /\ \/ abortError' = callId[t]
                 \/ /\ aborted /\ ret'[t] = 0
                    /\ UNCHANGED <<capacity, statVars, abortError, numPoolAborts>>]_vars

\* A reclaim whose pool reclaim threw has aborted the pool with that exception
\* and returned the capacity the abort freed.
C9_Witness ==
    \E t \in Threads :
        /\ pc[t] = "idle" /\ err[t] = "reclaim"
        /\ aborted /\ abortError = callId[t] /\ ret[t] > 0

\* C10: every step of an abort() on an already aborted participant, from the
\* call to the return, leaves the aborted flag, the capacity and every stat
\* unchanged and does not call the pool's abort; the call returns 0.
C10_SecondAbortIsNoOp ==
    [][\A t \in Threads :
          (/\ aborted
           /\ \/ pc[t] = "idle" /\ pc'[t] = "abort_lock"
              \/ /\ err[t] = "user" /\ pc[t] \in {"abort_lock", "abort_state"}
                 /\ pc'[t] # pc[t]) =>
              /\ aborted'
              /\ pc'[t] \in {"abort_lock", "abort_state", "idle"}
              /\ Returns(t) => ret'[t] = 0
              /\ UNCHANGED <<capacity, statVars, numRequests, abortError,
                             numPoolAborts, poolAborted>>]_vars

\* An abort() has returned 0 from a participant that another call had aborted.
C10_Witness ==
    \E t \in Threads :
        /\ pc[t] = "idle" /\ err[t] = "user" /\ ret[t] = 0
        /\ aborted /\ numPoolAborts = 1 /\ abortError \notin {0, callId[t]}

\* ------------------------------------------------------------------ C11 - C20
\* C11: once the participant is marked aborted, no call of startArbitration
\* makes its operation running or queued, and no call of grow increases the
\* capacity.
C11_AbortedAcceptsNothing ==
    [][aborted =>
          /\ \A t \in Threads :
                ~(pc[t] = "idle" /\ pc'[t] \in {"running", "start_wait"})
          /\ capacity' <= capacity]_vars

\* Some thread is inside the pool shrink of shrink(true) or of abortLocked,
\* which asks for every free byte (line 332).
ForcedShrink == \E t \in Threads : pc[t] \in {"shrink_pool", "abort_shrink"} /\ target[t] = 0

\* C12 as claimed: 0 <= minCapacity <= capacity() <= maxCapacity in every state
\* reached by grow, shrink, reclaim and abort.
C12_CapacityWithinBounds ==
    /\ 0 <= config.minCapacity
    /\ config.minCapacity <= capacity
    /\ capacity <= maxCapacity

\* C12 as amended: 0 <= minCapacity <= maxCapacity and 0 <= capacity() <=
\* maxCapacity in every state; the capacity falls below minCapacity only by the
\* forced shrink of shrink(true) or abort, or by a shrink of an inactive pool.
C12_CapacityWithinBoundsUnlessForced ==
    /\ [](0 <= config.minCapacity /\ config.minCapacity <= maxCapacity)
    /\ [](0 <= capacity /\ capacity <= maxCapacity)
    /\ [][(capacity >= config.minCapacity /\ capacity' < config.minCapacity) =>
              (ForcedShrink \/ inactivePool)]_vars

\* A policy shrink of an active pool has stopped at minCapacity although free
\* bytes are left.
C12_Witness ==
    \E t \in Threads :
        /\ pc[t] = "idle" /\ ret[t] > 0 /\ reclaimedBytes = ret[t]
        /\ config.minCapacity > 0 /\ capacity = config.minCapacity
        /\ freeBytes > 0 /\ ~inactivePool /\ ~aborted

\* C13: in every pool state, active or inactive and under every Config,
\* reclaimableFreeCapacity() is at most the pool's free bytes.
C13_ReclaimableFreeWithinFree == reclaimableFreeCapacity <= freeBytes

\* After some call, an active pool under a min-free floor has free bytes of
\* which only a part is reclaimable.
C13_Witness ==
    /\ calls > 0 /\ ~inactivePool /\ config.minFreeCapacity # 0
    /\ 0 < reclaimableFreeCapacity /\ reclaimableFreeCapacity < freeBytes

\* C14 as claimed: reclaimableUsedCapacity() is at most what the pool reports
\* as reclaimable (0 when it reports nothing) and at most
\* maxReclaimableCapacity(), which is capacity - minCapacity, or the whole
\* capacity of an inactive pool.
C14_ReclaimableUsedWithinLimits ==
    /\ \A reclaimableBytes \in PoolReclaimableBytes :
          /\ reclaimableUsedCapacity(reclaimableBytes) <= valueOr0(reclaimableBytes)
          /\ reclaimableUsedCapacity(reclaimableBytes) <= maxReclaimableCapacity
    /\ maxReclaimableCapacity =
          IF inactivePool THEN capacity ELSE capacity - config.minCapacity

\* C14 as amended: the same, with maxReclaimableCapacity() of an active pool
\* being capacity - minCapacity, or 0 when the capacity is below minCapacity.
C14_ReclaimableUsedWithinClampedLimits ==
    /\ \A reclaimableBytes \in PoolReclaimableBytes :
          /\ reclaimableUsedCapacity(reclaimableBytes) <= valueOr0(reclaimableBytes)
          /\ reclaimableUsedCapacity(reclaimableBytes) <= maxReclaimableCapacity
    /\ maxReclaimableCapacity =
          IF inactivePool THEN capacity ELSE Max(0, capacity - config.minCapacity)

\* After some call an active pool holds less than its minCapacity, and a pool
\* report above the limit is cut to 0.
C14_Witness ==
    /\ calls > 0 /\ ~inactivePool /\ capacity < config.minCapacity
    /\ \E reclaimableBytes \in PoolReclaimableBytes :
          reclaimableBytes > 0 /\ reclaimableUsedCapacity(reclaimableBytes) = 0

\* The last driver has taken the table of driver p and a merged table has been
\* published to the bridge.
PublishedFor(p) == ~hasTable[p] /\ stateCleared[p] /\ numSetHashTable > 0

\* The promise of driver p, waiting at the build barrier, is fulfilled.
Released(p) ==
    state[p] = "kWaitForBuild" /\ future[p] = "waiting" /\ future'[p] = "ready"

\* C15: build barrier.  A step that merges the drivers' tables is taken by one
\* driver while every other driver waits in kWaitForBuild, and it publishes
\* the merged table to the bridge; the promise of a waiting driver is fulfilled
\* only when its table has been taken and the merged table published, or the
\* bridge carries the null-key mark of the anti join, or in the step in which
\* the last driver fails.
C15_BuildBarrier ==
    [][/\ (numMerges' # numMerges) =>
            /\ \E d \in Drivers :
                  /\ at[d] = "adoptPeers"
                  /\ \A p \in Drivers \ {d} : state[p] = "kWaitForBuild" /\ at[p] = "off"
            /\ numMerges' = numMerges + 1
            /\ numSetHashTable' = numSetHashTable + 1
       /\ \A p \in Drivers :
            Released(p) =>
                \/ PublishedFor(p)
                \/ antiJoinHasNullKeys
                \/ \E d \in Drivers \ {p} : ~failed[d] /\ failed'[d]]_vars

\* A driver released from the barrier after the last driver published.
C15_Witness ==
    \E p \in Drivers :
        /\ state[p] = "kWaitForBuild" /\ future[p] = "ready"
        /\ numMerges = 1 /\ numSetHashTable = 1 /\ bridgeTable # {}

\* A step of HashBuild::reclaim.
ReclaimStep == numReclaimCalls' # numReclaimCalls

\* Every peer's table content went to its spiller and its table was cleared.
AllPeersSpilled ==
    \A p \in findPeerOperators :
        /\ table'[p] = {}
        /\ spiller'[p].spillTriggered
        /\ spiller'[p].rows = spiller[p].rows \cup table[p]

FinishedOrHandedOff(d) ==
    \/ state[d] \notin {"kRunning", "kWaitForBuild", "kYield"}
    \/ ~spiller[d].exists
    \/ spiller[d].finalized

\* The call of reclaim returned without spilling, with its warning logged.
RefusedNormally ==
    /\ reclaimResult'.result \in {"nonReclaimable", "exceededMaxSpillLevel"}
    /\ table' = table /\ spiller' = spiller

\* C17 as stated: in each of the three cases reclaim returns normally, with
\* the table and the spiller unchanged and a diagnostic recorded.
C17_ReclaimRefuses ==
    [][ReclaimStep =>
         LET d == reclaimResult'.op IN
         (FinishedOrHandedOff(d) \/ nonReclaimableSection(d)
             \/ exceededMaxSpillLevelLimit[d]) => RefusedNormally]_vars

\* C17, amended: reclaim on an operator inside a non-reclaimable section
\* fails its check, with the table and the spiller unchanged; outside such a
\* section it returns normally with the table and the spiller unchanged and a
\* warning logged when the operator has exceeded the spill level limit, and
\* otherwise when it has finished or handed off its table, the attempt then
\* being counted in the reclaimer's stats.
C17_ReclaimRefusesOutsideSection ==
    [][ReclaimStep =>
         LET d == reclaimResult'.op IN
         /\ nonReclaimableSection(d) =>
               /\ reclaimResult'.result = "checkFailed"
               /\ table' = table /\ spiller' = spiller
               /\ numNonReclaimableAttempts' = numNonReclaimableAttempts
         /\ (~nonReclaimableSection(d) /\ exceededMaxSpillLevelLimit[d]) =>
               /\ RefusedNormally
               /\ reclaimResult'.result = "exceededMaxSpillLevel"
         /\ (~nonReclaimableSection(d) /\ ~exceededMaxSpillLevelLimit[d]
               /\ FinishedOrHandedOff(d)) =>
               /\ RefusedNormally
               /\ numNonReclaimableAttempts' = numNonReclaimableAttempts + 1]_vars

\* Reclaim refused on a running operator that is past the spill level limit.
C17_Witness ==
    /\ reclaimResult.result = "exceededMaxSpillLevel"
    /\ reclaimResult.op \in Drivers
    /\ exceededMaxSpillLevelLimit[reclaimResult.op]
    /\ state[reclaimResult.op] = "kRunning"

\* Driver d's addInput goes past its anti-join short-circuit (line 374) with
\* the batch it was given.
StoresBatch(d) ==
    /\ input[d] # {} /\ input'[d] = {}
    /\ ~(joinType = "anti" /\ joinHasNullKeys'[d])

\* C18: once spilling has been triggered on an operator, every selected row of
\* a batch that addInput stores goes to the spiller and none into the table;
\* in any stored batch no row is both spilled and inserted, and every
\* selected row is spilled or inserted.
C18_SpilledRowsSkipTable ==
    [][\A d \in Drivers :
          StoresBatch(d) =>
             LET spilled == spiller'[d].rows \ spiller[d].rows
                 inserted == table'[d] \ table[d]
             IN /\ spillTriggered(d) => (spilled = activeRows(d) /\ inserted = {})
                /\ spilled \cap inserted = {}
                /\ spilled \cup inserted = activeRows(d)]_vars

\* A reclaim has spilled driver d's table and triggered its spiller, and d is
\* inside addInput with a later batch that has selected rows.
C18_Witness ==
    \E d \in Drivers :
        /\ at[d] \in {"addInput", "maybeReserve"}
        /\ spillTriggered(d) /\ spiller[d].rows # {}
        /\ reclaimResult.result = "spilled"
        /\ activeRows(d) # {}

\* A null-aware anti join in which some build driver has seen a null key.
SawNullKey(d) == joinType = "anti" /\ joinHasNullKeys[d]

\* C19 as stated: once a build driver has observed a null key and is back
\* from its addInput call, the bridge is marked and no merge was done,
\* whatever input the other drivers still have.
C19_NullKeyMarksBridgeAtOnce ==
    \A d \in Drivers :
        (SawNullKey(d) /\ at[d] = "off") =>
            (antiJoinHasNullKeys /\ numMerges = 0 /\ numSetHashTable = 0)

\* The last driver returns from the barrier without failing on a closed peer.
LastDriverReturns(d) ==
    /\ at[d] = "finishHashBuild" /\ peersFinished \cup {d} = Drivers
    /\ at'[d] \notin {"finishHashBuild", "promisesFailed"}

\* C19, amended: the driver that observes the null key takes no further
\* input; the bridge is marked only at the barrier, when the last driver gets
\* there (and does not fail on a closed peer), the other drivers having taken
\* their input until then; from the observation on no merge work is done: no
\* table is taken from a peer, nothing is merged or published.
C19_NullKeyMarksBridgeAtBarrier ==
    /\ [](\A d \in Drivers :
            SawNullKey(d) =>
               /\ at[d] = "off" => noMoreInput_[d]
               /\ numMerges = 0 /\ numSetHashTable = 0 /\ bridgeTable = {})
    /\ [][/\ \A d \in Drivers :
               (LastDriverReturns(d) /\ \E p \in Drivers : SawNullKey(p))
                   => antiJoinHasNullKeys'
          /\ (~antiJoinHasNullKeys /\ antiJoinHasNullKeys') =>
                \E d \in Drivers :
                   /\ at[d] = "finishHashBuild"
                   /\ \A p \in Drivers \ {d} : state[p] = "kWaitForBuild"
                   /\ \E p \in Drivers : SawNullKey(p)
          /\ (\E p \in Drivers : SawNullKey(p)) =>
                \A p \in Drivers :
                   /\ hasTable[p] /\ ~hasTable'[p] => closed'[p]
                   /\ table[p] \subseteq table'[p] \/ closed'[p]
                         \/ reclaimResult' # reclaimResult]_vars

\* The bridge is marked while the driver that saw the null key waits at the
\* barrier and a peer still holds the table it built from its own input.
C19_Witness ==
    /\ antiJoinHasNullKeys /\ numMerges = 0
    /\ \E d \in Drivers :
          /\ SawNullKey(d) /\ state[d] = "kWaitForBuild"
          /\ \E p \in Drivers \ {d} : table[p] # {} /\ hasTable[p]

\* The rows the drivers have accepted: taken from their sources and selected
\* (rows with a null key are deselected unless the join is a right join).
Accepted ==
    {r \in Rows : /\ r \notin pending[owner(r)] /\ r \notin input[owner(r)]
                  /\ (joinType = "right" \/ r \notin nullKeyRows)}

\* The rows of the spill partitions the bridge holds.
SpilledRows == {x[1] : x \in bridgeSpill}

\* The rows the drivers hold, in their tables and in their spillers.
HeldRows == UNION {table[p] \cup spiller[p].rows : p \in Drivers}

\* C20 as stated: once all the drivers have finished, exactly one merged table
\* has been published, and it and the published spill partitions hold the rows
\* the drivers accepted, each row once.
C20_OneMergedTableWhenFinished ==
    (\A d \in Drivers : state[d] = "kFinish" /\ ~closed[d] /\ ~failed[d]) =>
        /\ numSetHashTable = 1
        /\ bridgeTable \cap SpilledRows = {}
        /\ bridgeTable \cup SpilledRows = Accepted

\* C20, amended: a build round that completes publishes exactly one merged
\* table, with every driver at the barrier; the merged table and the spill
\* partitions published with it hold the rows of all the drivers, each row
\* once, in the table or in one spill partition; after the first round they
\* hold exactly the rows the drivers accepted, all drivers having finished
\* their input and handed over their tables.  A driver gets past the barrier
\* of a round that did not fail only with a table published or, for a
\* null-aware anti join that has seen a null key, with the bridge marked; the
\* drivers finish after a further round for every restored spill partition.
C20_MergedTableHoldsAllRows ==
    /\ []((numSetHashTable = 1 /\ ~probeFinished) =>
            /\ numMerges = 1
            /\ bridgeTable \cap SpilledRows = {}
            /\ bridgeTable \cup SpilledRows = Accepted
            /\ Cardinality(bridgeSpill) = Cardinality(SpilledRows)
            /\ \A d \in Drivers :
                  noMoreInput_[d] /\ pending[d] = {} /\ ~hasTable[d] /\ table[d] = {})
    /\ [](\A d \in Drivers :
            (state[d] \in {"kWaitForProbe", "kFinish"} /\ \A p \in Drivers : ~failed[p])
                => (numSetHashTable >= 1 \/ antiJoinHasNullKeys))
    /\ [][(numSetHashTable' # numSetHashTable) =>
            /\ numSetHashTable' = numSetHashTable + 1
            /\ \E d \in Drivers :
                  \A p \in Drivers \ {d} : state[p] = "kWaitForBuild" /\ noMoreInput_[p]
            /\ bridgeTable' \cup {x[1] : x \in bridgeSpill' \ bridgeSpill} = HeldRows
            /\ bridgeTable' \cap {x[1] : x \in bridgeSpill' \ bridgeSpill} = {}
            /\ \A x, y \in bridgeSpill' : x[1] = y[1] => x = y]_vars

\* The first round is complete and the input of both drivers, too large to
\* stay in memory, is in the published spill partitions.
C20_Witness ==
    /\ numSetHashTable = 1 /\ ~probeFinished
    /\ SpilledRows = Rows
    /\ \A d \in Drivers : state[d] \in {"kWaitForProbe", "kFinish"}

\* ------------------------------------------------------------------ C21 - C30
\* The transitions the claim lists as valid.
ValidTransition(from, to) ==
    /\ from # to
    /\ to \in {"kWaitForBuild", "kWaitForProbe", "kFinish"} => from = "kRunning"
    /\ to = "kRunning" =>
          IF canSpillConfig THEN from # "kFinish" ELSE from = "kWaitForBuild"
    /\ to # "kYield"

\* C21 as stated: every change of an operator's state is a valid transition,
\* and a step in which the operator fails its check leaves the state as it was.
C21_EveryStateChangeValid ==
    [][\A d \in Drivers :
          /\ state'[d] # state[d] => ValidTransition(state[d], state'[d])
          /\ (~failed[d] /\ failed'[d]) => state'[d] = state[d]]_vars

\* C21, amended: every change of state made through setState is a valid
\* transition, and an invalid one fails its check and leaves the state as it
\* was; the one change made without setState is the yield of
\* processSpillInput, from kRunning to kYield while reading spill input, a
\* target checkStateTransition itself rejects.
C21_StateChangeValidOrYield ==
    [][\A d \in Drivers :
          /\ state'[d] # state[d] =>
                \/ ValidTransition(state[d], state'[d])
                \/ /\ state[d] = "kRunning" /\ state'[d] = "kYield"
                   /\ isInputFromSpill[d] /\ canSpillConfig
          /\ (~failed[d] /\ failed'[d]) =>
                /\ state'[d] = state[d]
                /\ \E s \in States : ~ValidTransition(state[d], s)
          /\ \A s \in States :
                ~failed[d] =>
                   IF ValidTransition(state[d], s)
                   THEN ENABLED (setState(d, s) /\ state'[d] = s /\ ~failed'[d])
                   ELSE /\ ENABLED (setState(d, s) /\ failed'[d])
                        /\ ~ENABLED (setState(d, s) /\ ~failed'[d])]_vars

\* An operator that went back to kRunning from kYield, next to one that failed
\* the check of a transition.
C21_Witness ==
    /\ canSpillConfig
    /\ \E d \in Drivers : failed[d] /\ state[d] = "kFinish"
    /\ \E d \in Drivers : ~failed[d] /\ state[d] = "kRunning" /\ future[d] = "ready"

\* Operator d sets up a new table to restore a spill partition.
RestoreStep(d) == ~hasTable[d] /\ hasTable'[d]

\* C22: recursive spill terminates.  Levels count partition-bit offsets in
\* units of numPartitionBits.  A restore sets the operator up one level below
\* the restored partition: with a spiller of that level when the level is
\* within the limit, and with no spiller, the limit flagged and the operator
\* not reclaimable when it is not.  So no spiller and no spill partition is
\* ever deeper than the limit, and what an operator past the limit restores
\* is never spilled again.
C22_SpillDepthBounded ==
    /\ [](/\ \A d \in Drivers :
               /\ spiller[d].exists => spiller[d].level <= MaxSpillLevel
               /\ spillLevel[d] <= MaxSpillLevel + 1
               /\ exceededMaxSpillLevelLimit[d] =>
                     /\ ~spiller[d].exists /\ ~canReclaim(d)
                     /\ spillLevel[d] = MaxSpillLevel + 1
          /\ \A x \in bridgeSpill \cup restoring : x[2] <= MaxSpillLevel)
    /\ [][\A d \in Drivers :
            RestoreStep(d) =>
               /\ restoring # {}
               /\ spillLevel'[d] = RestoringLevel + 1
               /\ \A x \in restoring : spillLevel'[d] > x[2]
               /\ IF spillLevel'[d] <= MaxSpillLevel
                  THEN /\ spiller'[d] = NewSpiller(spillLevel'[d])
                       /\ ~exceededMaxSpillLevelLimit'[d]
                  ELSE /\ ~spiller'[d].exists
                       /\ exceededMaxSpillLevelLimit'[d]]_vars

\* An operator restoring a partition of the deepest level, past the limit,
\* after a reclaim was refused on it.
C22_Witness ==
    \E d \in Drivers :
        /\ exceededMaxSpillLevelLimit[d] /\ spillLevel[d] = MaxSpillLevel + 1
        /\ state[d] = "kRunning" /\ table[d] # {}
        /\ reclaimResult = [op |-> d, result |-> "exceededMaxSpillLevel"]

\* Thread t's operation asks in this step for more than maxGrowCapacity().
RequestsTooMuch(t) ==
    /\ calls' = calls + 1 /\ callId'[t] = calls'
    /\ target'[t] > maxCapacity - capacity

C24_NoDuplicateAdmission ==
    /\ \A i, j \in 1..Len(waitOps) : i # j => waitOps[i] # waitOps[j]
    /\ \A i \in 1..Len(waitOps) : waitOps[i] # runningOp

\* Two operations wait behind a running one that was admitted from the queue.
C24_Witness ==
    /\ runningOp # 0 /\ Len(waitOps) = 2
    /\ numRequests = MaxRequests

\* capacity * minFreeCapacityRatio, truncated (line 177).
RatioFloor == (capacity * config.minFreeCapacityRatio) \div 100

\* The free bytes above a floor, 0 when they do not exceed it.
FreeBytesAbove(floor) == IF freeBytes <= floor THEN 0 ELSE freeBytes - floor

\* C25 as stated: for an active pool maxShrinkCapacity() is the free bytes
\* above max(minFreeCapacity, capacity * minFreeCapacityRatio), and for an
\* inactive pool all the free bytes.
C25_MaxShrinkAboveLargerFloor ==
    maxShrinkCapacity =
        IF inactivePool THEN freeBytes
        ELSE FreeBytesAbove(Max(config.minFreeCapacity, RatioFloor))

\* C25, amended: for an active pool maxShrinkCapacity() is the free bytes
\* above min(minFreeCapacity, capacity * minFreeCapacityRatio), the smaller of
\* the two limits (0 when the free bytes do not exceed it); for an inactive
\* pool it is all the free bytes.
C25_MaxShrinkAboveSmallerFloor ==
    maxShrinkCapacity =
        IF inactivePool THEN freeBytes
        ELSE FreeBytesAbove(Min(config.minFreeCapacity, RatioFloor))

\* An active pool whose two limits differ and whose free bytes lie between
\* them: the free byte can be shrunk.
C25_Witness ==
    /\ ~inactivePool /\ config.minFreeCapacity # 0
    /\ RatioFloor < freeBytes /\ freeBytes <= config.minFreeCapacity
    /\ maxShrinkCapacity > 0
    /\ numShrinks > 0

\* C26: for an inactive pool (no reserved bytes, a peak above zero) the policy
\* floors do not apply: reclaimableFreeCapacity() is the pool's whole
\* capacity whatever minCapacity, minFreeCapacity and minFreeCapacityRatio are.
C26_InactivePoolWhollyReclaimable ==
    inactivePool => reclaimableFreeCapacity = capacity

\* An inactive pool that holds capacity, under a Config whose floors would all
\* keep some of it back, after the participant has shrunk and grown it.
C26_Witness ==
    /\ inactivePool
    /\ capacity > 0
    /\ config.minCapacity >= capacity
    /\ config.minFreeCapacity # 0
    /\ RatioFloor > 0
    /\ reclaimableFreeCapacity = capacity
    /\ numShrinks > 0

\* The call of getGrowTargets by t finishes: the clamps and the checks are done.
GrowTargetsDone(t) == pc[t] = "getGrowTargets_clamp" /\ pc'[t] = "idle"

\* The bounds on the targets getGrowTargets has written for request requestBytes.
TargetsBounded(t, requestBytes) ==
    /\ maxGrowBytes'[t] >= requestBytes
    /\ maxGrowBytes'[t] >= minGrowCapacity
    /\ maxGrowBytes'[t] <= maxGrowCapacity
    /\ minGrowBytes'[t] <= maxGrowBytes'[t]
    /\ minGrowBytes'[t] = minGrowCapacity
    /\ minGrowCapacity = Max(0, config.minCapacity - capacity)

\* C27 as stated: for every requestBytes, capacity and Config, getGrowTargets
\* returns maxGrowBytes >= requestBytes, >= minGrowCapacity(), <= maxGrowCapacity()
\* and minGrowBytes <= maxGrowBytes, with minGrowBytes = minGrowCapacity() =
\* max(0, minCapacity - capacity).
C27_TargetsBoundedForEveryRequest ==
    [][\A t \in Threads :
          GrowTargetsDone(t) => err'[t] = "none" /\ TargetsBounded(t, target[t])]_vars

\* C27: for every capacity and Config and every requestBytes that
\* maxGrowCapacity() can hold, getGrowTargets returns targets within those
\* bounds; for a larger requestBytes it fails its check, with maxGrowBytes at
\* maxGrowCapacity() and minGrowBytes at minGrowCapacity().
C27_TargetsBoundedForFittingRequest ==
    [][\A t \in Threads :
          GrowTargetsDone(t) =>
              IF target[t] <= maxGrowCapacity
              THEN err'[t] = "none" /\ TargetsBounded(t, target[t])
              ELSE /\ err'[t] = "checkFailed"
                   /\ maxGrowBytes'[t] = maxGrowCapacity
                   /\ minGrowBytes'[t] = minGrowCapacity]_vars

\* getGrowTargets has returned targets where every clamp mattered: the pool is
\* below minCapacity, which is above both the request and the capacity-based
\* choice.
C27_Witness ==
    \E t \in Threads :
        /\ pc[t] = "idle" /\ calls > 0 /\ err[t] = "none"
        /\ config.slowCapacityGrowRatio # 0
        /\ target[t] > 0
        /\ minGrowCapacity > target[t]
        /\ maxGrowBytes[t] = minGrowCapacity
        /\ minGrowBytes[t] = minGrowCapacity
        /\ maxGrowBytes[t] <= maxGrowCapacity

\* getGrowTargets has chosen t's maxGrowBytes and has not clamped it yet.
GrowTargetsChosen(t) == pc[t] = "idle" /\ pc'[t] = "getGrowTargets_clamp"

NoGrowthPolicy ==
    config.fastExponentialGrowthCapacityLimit = 0 /\ config.slowCapacityGrowRatio = 0

SlowGrowBytes == (capacity * config.slowCapacityGrowRatio) \div 100

\* C28 as stated: before clamping, getGrowTargets chooses maxGrowBytes =
\* requestBytes when no exponential-growth policy is configured; otherwise
\* capacity while the capacity is below fastExponentialGrowthCapacityLimit, and
\* capacity x slowCapacityGrowRatio once it is not.
C28_DoublesBelowLimit ==
    [][\A t \in Threads :
          GrowTargetsChosen(t) =>
              maxGrowBytes'[t] =
                  IF NoGrowthPolicy THEN target'[t]
                  ELSE IF capacity < config.fastExponentialGrowthCapacityLimit
                       THEN capacity ELSE SlowGrowBytes]_vars

\* C28: before clamping, getGrowTargets chooses maxGrowBytes = requestBytes
\* when no exponential-growth policy is configured; otherwise capacity while
\* twice the capacity is at most fastExponentialGrowthCapacityLimit, and
\* capacity x slowCapacityGrowRatio once it is not.
C28_DoublesWhileDoubleWithinLimit ==
    [][\A t \in Threads :
          GrowTargetsChosen(t) =>
              maxGrowBytes'[t] =
                  IF NoGrowthPolicy THEN target'[t]
                  ELSE IF capacity * 2 <= config.fastExponentialGrowthCapacityLimit
                       THEN capacity ELSE SlowGrowBytes]_vars

\* getGrowTargets has chosen the slow growth for a pool whose capacity is below
\* the limit while its double is above it.
C28_Witness ==
    \E t \in Threads :
        /\ pc[t] = "getGrowTargets_clamp"
        /\ ~NoGrowthPolicy
        /\ capacity < config.fastExponentialGrowthCapacityLimit
        /\ capacity * 2 > config.fastExponentialGrowthCapacityLimit
        /\ maxGrowBytes[t] = SlowGrowBytes
        /\ maxGrowBytes[t] # capacity
        /\ maxGrowBytes[t] # target[t]

\* This step is a call of grow by t.
GrowCall(t) == callId'[t] # callId[t] /\ numGrows' # numGrows

\* C29: grow(bytes, reservationBytes) returns the pool's grow result, true
\* exactly when the pool took the bytes; it counts the call in numGrows and, on
\* success, the bytes in growBytes; when the pool refuses it returns false and
\* changes nothing except numGrows: capacity, growBytes, runningOp, waitOps and
\* the aborted flag are unchanged.
C29_RefusedGrowChangesOnlyNumGrows ==
    [][\A t \in Threads :
          GrowCall(t) =>
              /\ numGrows' = numGrows + 1
              /\ ret'[t] \in {0, 1}
              /\ (ret'[t] = 1) = (capacity' > capacity)
              /\ (ret'[t] = 1) = (capacity < maxCapacity)
              /\ growBytes' - growBytes = capacity' - capacity
              /\ UNCHANGED <<runningOp, waitOps, aborted>>
              /\ ret'[t] = 0 =>
                    UNCHANGED <<capacity, reservedBytes, growBytes, reclaimedBytes,
                                numRequests, numShrinks, numReclaims>>]_vars

\* The pool at its maximum has refused every grow so far, while an operation
\* is running on the participant.
C29_Witness ==
    \E t \in Threads :
        /\ pc[t] = "idle" /\ ret[t] = 0
        /\ callId[t] = calls
        /\ numGrows > 0 /\ growBytes = 0
        /\ capacity = maxCapacity
        /\ runningOp # 0

\* The effective target of a reclaim for targetBytes: the largest of the
\* requested bytes, minReclaimBytes and capacity x minReclaimPct.
EffectiveTarget(targetBytes) ==
    Max(targetBytes,
        Max(config.minReclaimBytes, (capacity * config.minReclaimPct) \div 100))

\* C30: reclaim(targetBytes, ...) calls the pool's reclaim with the effective
\* target max(targetBytes, minReclaimBytes, capacity x minReclaimPct); once the
\* pool's reclaim callback has returned it performs exactly one policy shrink,
\* shrink(false), which asks the pool for reclaimableFreeCapacity() if that is
\* positive, and the bytes that shrink returns are the result of reclaim().
C30_ReclaimTargetsThenShrinksOnce ==
    [][\A t \in Threads :
          /\ \A targetBytes \in 0..MaxCapacity :
                (pc[t] = "idle" /\ calls < MaxCalls) =>
                    ENABLED (/\ reclaim(t, targetBytes)
                             /\ target'[t] = EffectiveTarget(targetBytes)
                             /\ pc'[t] = IF EffectiveTarget(targetBytes) = 0
                                         THEN "idle" ELSE "reclaim_lock")
          /\ (pc[t] = "idle" /\ pc'[t] = "reclaim_lock") =>
                /\ \E targetBytes \in 0..MaxCapacity :
                      target'[t] = EffectiveTarget(targetBytes)
                /\ target'[t] > 0
          /\ (pc[t] = "reclaim_lock" /\ pc'[t] = "reclaim_pool") =>
                /\ target'[t] = target[t]
                /\ numReclaims' = numReclaims + 1
                /\ UNCHANGED <<numShrinks, capacity>>
          /\ (pc[t] = "reclaim_pool" /\ pc'[t] = "reclaim_shrink_lock") =>
                UNCHANGED <<numShrinks, numReclaims, capacity, reclaimedBytes>>
          /\ pc[t] = "reclaim_shrink_lock" =>
                /\ pc'[t] \in {"reclaim_shrink_lock", "reclaim_shrink", "idle"}
                /\ pc'[t] = "reclaim_shrink" =>
                      /\ numShrinks' = numShrinks + 1
                      /\ reclaimableFreeCapacity > 0
                      /\ target'[t] = reclaimableFreeCapacity
                      /\ UNCHANGED <<capacity, reclaimedBytes>>
                /\ pc'[t] = "idle" =>
                      /\ numShrinks' = numShrinks + 1
                      /\ reclaimableFreeCapacity = 0
                      /\ ret'[t] = 0
                      /\ UNCHANGED <<capacity, reclaimedBytes>>
          /\ pc[t] = "reclaim_shrink" =>
                /\ pc'[t] \in {"reclaim_shrink", "idle", "abort_state"}
                /\ UNCHANGED numShrinks
                /\ pc'[t] = "idle" =>
                      /\ ret'[t] = capacity - capacity'
                      /\ ret'[t] = Min(target[t], freeBytes)
                      /\ reclaimedBytes' = reclaimedBytes + ret'[t]
                      /\ err'[t] = "none"]_vars

\* The only call so far, a reclaim under a Config with both reclaim floors,
\* has returned the bytes of its one shrink.
C30_Witness ==
    \E t \in Threads :
        /\ pc[t] = "idle" /\ err[t] = "none" /\ calls = 1
        /\ config.minReclaimBytes > 0 /\ config.minReclaimPct > 0
        /\ numReclaims = 1 /\ numShrinks = 1
        /\ ret[t] > 0 /\ reclaimedBytes = ret[t]

\* ------------------------------------------------------------------ C31 - C40
\* The steps of an abortLocked that found the participant not yet aborted.
AbortMarks(t) == pc[t] = "abort_state" /\ pc'[t] = "abort_pool"
AbortAsksPool(t) == pc[t] = "abort_pool" /\ pc'[t] = "abort_shrink_lock"
AbortEntersShrink(t) == pc[t] = "abort_shrink_lock" /\ pc'[t] = "abort_shrink"
AbortReturns(t) == pc[t] = "abort_shrink" /\ pc'[t] = "idle"

\* What every first abort does before its shrink returns: it marks the
\* participant, asks the pool to abort with its error whether or not the pool's
\* abort throws, and asks the pool for every free byte.
AbortMarksAsksAndForces(t) ==
    /\ AbortMarks(t) => ~aborted /\ aborted'
    /\ AbortAsksPool(t) =>
          /\ aborted /\ poolAborted' /\ abortError' = callId[t]
          /\ numPoolAborts' = numPoolAborts + 1
    /\ AbortEntersShrink(t) => aborted /\ target'[t] = 0 /\ numShrinks' = numShrinks + 1

\* C31 as stated: the first abort(error) on a participant marks it aborted,
\* asks the pool to abort with that error, and force-shrinks the participant's
\* capacity to zero ignoring minCapacity and the min-free floors, also when the
\* pool's abort throws.
C31_AbortShrinksToZero ==
    [][\A t \in Threads :
          /\ AbortMarksAsksAndForces(t)
          /\ AbortReturns(t) => capacity' = 0 /\ ret'[t] = capacity]_vars

\* C31: the first abort(error) on a participant marks it aborted, asks the pool
\* to abort with that error, and force-shrinks the capacity to what the pool
\* still has reserved, ignoring minCapacity and the min-free floors: every free
\* byte is given back and returned, and the capacity is zero when the pool's
\* abort has released its reservations.
C31_AbortShrinksToReservation ==
    [][\A t \in Threads :
          /\ AbortMarksAsksAndForces(t)
          /\ AbortReturns(t) =>
                /\ capacity' = reservedBytes
                /\ ret'[t] = capacity - reservedBytes
                /\ reclaimedBytes' = reclaimedBytes + ret'[t]
                /\ reservedBytes = 0 => capacity' = 0]_vars

\* An abort of an active pool under a Config with every floor set has returned
\* with the capacity at zero, below minCapacity.
C31_Witness ==
    \E t \in Threads :
        /\ pc[t] = "idle" /\ err[t] = "user" /\ calls = 1
        /\ aborted /\ poolAborted /\ abortError = callId[t] /\ numPoolAborts = 1
        /\ config.minCapacity > 0 /\ config.minFreeCapacity > 0
        /\ peakBytes = MaxCapacity
        /\ capacity = 0 /\ ret[t] = MaxCapacity

\* The table or the spiller of operator p changes in this step.
Mutated(p) == table'[p] # table[p] \/ spiller'[p] # spiller[p]

\* This step is taken by p's own driver inside or through its operator.
OwnDriverStep(p) ==
    /\ ~ReclaimStep
    /\ at'[p] # at[p] \/ state'[p] # state[p] \/ closed'[p] # closed[p]

\* HashBuild::reclaim spills in this step: the task is paused and no peer is
\* in a non-reclaimable section, so none is inside addInput or finishHashBuild.
ReclaimSpillsPaused ==
    /\ ReclaimStep
    /\ reclaimResult'.result = "spilled"
    /\ \A q \in findPeerOperators :
          /\ ~nonReclaimableSection(q)
          /\ at[q] \in {"off", "maybeReserve", "ensureTableFits"}

\* Without a pause of the task a reclaim of a reclaimable operator fails its
\* check and mutates nothing.
UnpausedReclaimMutatesNothing ==
    \A d \in Drivers :
        /\ ~ENABLED (HashBuildReclaim(d, FALSE) /\ (table' # table \/ spiller' # spiller))
        /\ (canSpillConfig /\ ~closed[d] /\ numReclaimCalls < MaxReclaims
              /\ ~exceededMaxSpillLevelLimit[d] /\ ~nonReclaimableState(d)) =>
              ENABLED (/\ HashBuildReclaim(d, FALSE)
                       /\ reclaimResult'.result = "pauseCheckFailed")

\* The last driver q takes over the table and the spiller of peer p, which
\* waits at the barrier with its driver off its thread.
AdoptedAtBarrier(p) ==
    \E q \in Drivers \ {p} :
        /\ at[q] = "adoptPeers" /\ at'[q] # "adoptPeers"
        /\ at[p] = "off" /\ state[p] = "kWaitForBuild" /\ ~stateCleared[p]

\* C32 as stated: a HashBuild operator's table is mutated by a thread other
\* than its own driver only while the owning task is paused for arbitration
\* and the operator is outside any non-reclaimable section.
C32_MutatedByOthersOnlyWhenPaused ==
    [][/\ UnpausedReclaimMutatesNothing
       /\ \A p \in Drivers :
             Mutated(p) => (OwnDriverStep(p) \/ ReclaimSpillsPaused)]_vars

\* C32: HashBuild::reclaim spills or clears an operator's table only while the
\* task is paused and no peer is in a non-reclaimable section, so never while a
\* driver is in the middle of addInput or finishHashBuild; the one other
\* mutation by a thread that is not the operator's driver is the last build
\* driver taking over the table and spiller of a peer waiting at the barrier.
C32_MutatedByOthersWhenPausedOrAdopted ==
    [][/\ UnpausedReclaimMutatesNothing
       /\ \A p \in Drivers :
             Mutated(p) =>
                 (OwnDriverStep(p) \/ ReclaimSpillsPaused \/ AdoptedAtBarrier(p))]_vars

\* A reclaim called on one operator has spilled the table of a peer whose
\* driver is suspended inside the reclaimable section of ensureInputFits.
C32_Witness ==
    \E p \in Drivers :
        /\ reclaimResult.result = "spilled" /\ reclaimResult.op # p
        /\ at[p] = "maybeReserve"
        /\ table[p] = {} /\ spiller[p].spillTriggered /\ spiller[p].rows # {}

\* The last driver q goes through its second loop over the peers (lines
\* 713-729) in this step.
AdoptStep(q) == at[q] = "adoptPeers" /\ at'[q] # "adoptPeers"

\* Operator p is closed in this step.
CloseStep(p) == ~closed[p] /\ closed'[p]

\* C33: closing a HashBuild operator concurrently with the last build driver
\* adopting its state is safe: the last driver takes a peer's table and
\* spiller only in its critical section on the peer and only while the
\* peer's stateCleared flag is false, which the taking sets, so that a table
\* is moved out at most once; a cleared peer makes the last driver fail
\* without taking or publishing anything of it; and close() frees only a
\* table the operator still holds, never the table handed to the bridge.
C33_CloseAndAdoptionExclude ==
    [][/\ \A q \in Drivers : \A p \in Drivers \ {q} :
             AdoptStep(q) =>
                /\ Mutated(p) => (~stateCleared[p] /\ ~closed[p] /\ hasTable[p])
                /\ (hasTable[p] /\ ~hasTable'[p]) => (~stateCleared[p] /\ stateCleared'[p])
                /\ stateCleared[p] =>
                      /\ ~Mutated(p)
                      /\ at'[q] = "promisesFailed"
                      /\ UNCHANGED <<bridgeTable, bridgeSpill, numSetHashTable>>
                /\ numSetHashTable' # numSetHashTable =>
                      /\ ~stateCleared[p]
                      /\ table[p] \subseteq bridgeTable'
       /\ \A p \in Drivers :
             CloseStep(p) =>
                /\ stateCleared'[p] /\ ~hasTable'[p]
                /\ UNCHANGED <<bridgeTable, bridgeSpill, numSetHashTable>>
                /\ \A q \in Drivers \ {p} : table'[q] = table[q] /\ spiller'[q] = spiller[q]
                /\ stateCleared[p] => (table[p] = {} /\ ~hasTable[p])
                /\ at[p] = "off"]_vars

\* A peer was closed after the last driver had taken its table: the merged
\* table on the bridge still holds the peer's rows.
C33_Witness ==
    \E p \in Drivers :
        /\ closed[p] /\ stateCleared[p] /\ ~hasTable[p]
        /\ numMerges = 1 /\ numSetHashTable = 1
        /\ \E r \in bridgeTable : owner(r) = p
        /\ \E q \in Drivers \ {p} : failed[q] = FALSE /\ ~closed[q]

\* ------------------------------------------------------------------ C34
\* The rows of the partition being restored that driver d's spill reader
\* delivers (setupSpillInput, line 873).
RestoredShare(d) == {x[1] : x \in {y \in restoring : owner(y[1]) = d}}

\* Driver d is draining a restored partition.
Draining(d) ==
    /\ isInputFromSpill[d] /\ ~failed[d] /\ ~closed[d]
    /\ state[d] \in {"kRunning", "kYield"}
    /\ at[d] \in {"off", "addInput", "maybeReserve"}

\* The step that ends the addInput of a batch of the spill reader.
SpillBatchStored(d) ==
    /\ isInputFromSpill[d]
    /\ at[d] \in {"addInput", "maybeReserve"} /\ at'[d] = "off"

\* The step in which processSpillInput calls noMoreInputInternal.
NoMoreInputInternalStep(d) ==
    isInputFromSpill[d] /\ at[d] = "off" /\ at'[d] = "finishHashBuild"

\* The step in which setupSpillInput sets the operator up for a partition,
\* called by postHashBuildProcess after the build barrier.
SetupSpillInputStep(d) ==
    /\ state[d] \in {"kWaitForBuild", "kWaitForProbe"} \/ at[d] = "promises"
    /\ state'[d] = "kRunning" /\ isInputFromSpill'[d] /\ at'[d] = "off"

\* The rows of its share that driver d has taken from the reader and that a
\* join of this type keeps.
RowsDrained(d) ==
    {r \in RestoredShare(d) \ (pending[d] \cup input[d]) :
        joinType \in {"inner", "anti"} => r \notin nullKeyRows}

\* After a batch of the spill reader the operator is running with its future
\* untouched, or has yielded with state kYield and a fulfilled future.
YieldsAfterBatch ==
    \A d \in Drivers :
        SpillBatchStored(d) =>
            \/ state'[d] = "kRunning" /\ future'[d] = future[d]
            \/ state'[d] = "kYield" /\ future'[d] = "ready"

\* A step of a yielded operator leaves its reader and its batch alone, and the
\* state only changes back to kRunning, with the future taken.
ResumesAfterYield ==
    \A d \in Drivers :
        state[d] = "kYield" =>
            /\ pending'[d] = pending[d] /\ input'[d] = input[d]
            /\ at[d] = "off" /\ at'[d] = "off"
            /\ state'[d] \in {"kYield", "kRunning"}
            /\ state'[d] = "kRunning" =>
                  /\ future'[d] = "none" /\ ~failed'[d]
                  /\ table'[d] = table[d] /\ spiller'[d] = spiller[d]

\* While a partition is drained the reader only loses rows, so no batch is
\* delivered twice.
ReaderOnlyAdvances ==
    \A d \in Drivers :
        Draining(d) /\ ~SetupSpillInputStep(d) => pending'[d] \subseteq pending[d]

\* noMoreInputInternal runs with the reader empty and the operator running,
\* and takes the operator out of the drain: it is back in it only by a new
\* setupSpillInput.
NoMoreInputInternalOnce ==
    \A d \in Drivers :
        /\ NoMoreInputInternalStep(d) =>
              pending[d] = {} /\ input[d] = {} /\ state[d] = "kRunning"
        /\ ~Draining(d) /\ Draining(d)' => SetupSpillInputStep(d)

\* Every row taken from the reader is held by the operator, and no row still
\* to be read is: no batch is skipped and none is stored before it is read.
DrainedRowsHeld ==
    \A d \in Drivers :
        Draining(d) /\ ~(joinType = "anti" /\ joinHasNullKeys[d]) =>
            /\ RowsDrained(d) \subseteq table[d] \cup spiller[d].rows
            /\ pending[d] \cap (table[d] \cup spiller[d].rows) = {}
            /\ pending[d] \cap input[d] = {}
            /\ pending[d] \cup input[d] \subseteq RestoredShare(d)

\* The call in which the operator reaches kFinish returns without a failed
\* check.
FinishesWithoutFailing ==
    \A d \in Drivers :
        ~failed[d] /\ state[d] # "kFinish" /\ state'[d] = "kFinish" => ~failed'[d]

\* C34: draining a restored spill file, processSpillInput yields after a batch
\* with state kYield and a ready future, the next isBlocked returns to
\* kRunning and goes on with the reader where it stopped, so that every batch
\* is stored once, and noMoreInputInternal runs once per restored partition,
\* after the last batch; and the operator that yielded still finishes.
C34_YieldsAndStillFinishes ==
    /\ [][YieldsAfterBatch /\ ResumesAfterYield /\ ReaderOnlyAdvances
           /\ NoMoreInputInternalOnce /\ FinishesWithoutFailing]_vars
    /\ [](DrainedRowsHeld)

\* What holds of the yield: all of C34 but the end of the operator.
YieldKeepsEveryBatchOnce ==
    /\ [][YieldsAfterBatch /\ ResumesAfterYield /\ ReaderOnlyAdvances
           /\ NoMoreInputInternalOnce]_vars
    /\ [](DrainedRowsHeld)

\* A driver has yielded in the middle of its share: rows drained, rows left.
YieldedInTheMiddle ==
    \E d \in Drivers :
        /\ state[d] = "kYield" /\ Draining(d)
        /\ RowsDrained(d) # {} /\ pending[d] # {}

\* An operator that yielded inside noMoreInput was resumed by isBlocked, and
\* that call reached kFinish with the yield's future still in future_: the
\* check of isBlocked failed.
C34_Witness ==
    \E d \in Drivers :
        failed[d] /\ state[d] = "kFinish" /\ inIsBlocked[d] /\ futureLeft[d]

\* ------------------------------------------------------------------ C35
\* The ensureInputFits call has asked the pool for bytes.
Asked == fit.pos \in {"maybeReserve", "returned"} /\ fit.asked

\* The bytes asked for are the larger of twice the increment and the growth
\* percentage of the usage.
AsksForTwiceTheIncrement ==
    Asked =>
        /\ fit.requested >= 2 * incrementBytes(fit)
        /\ fit.requested >= Pct(fit.currentUsage, fit.spillableReservationGrowthPct)
        /\ \/ fit.requested = 2 * incrementBytes(fit)
           \/ fit.requested = Pct(fit.currentUsage, fit.spillableReservationGrowthPct)

\* The call returns whatever the pool answers; bytes are released only when
\* they were granted and the operator was spilled meanwhile, and then always.
ReserveReturns ==
    fit.pos = "maybeReserve" =>
        /\ fit'.pos = "returned"
        /\ fit'.released <=> (fit'.granted /\ fit'.spiller = "spillTriggered")
        /\ fit'.warned <=> ~fit'.granted
        /\ ~fit'.granted => fit'.availableReservation = fit.availableReservation

\* An operator that cannot spill or is spilling already asks for nothing.
NothingAskedWhenSpilling ==
    fit.pos = "ensureInputFits" /\ NoReservationNeeded(fit) =>
        fit'.pos = "returned" /\ ~fit'.asked /\ fit'.requested = 0

\* C35: when ensureInputFits asks the pool for memory it asks for the larger
\* of twice the estimated increment of the batch and the growth percentage of
\* the current usage; a denied request makes the method return normally; a
\* granted one is released when the request spilled this operator; nothing is
\* asked when the operator cannot spill or its spiller is already triggered.
C35_ReservesTwiceTheIncrement ==
    /\ [](AsksForTwiceTheIncrement)
    /\ [][ReserveReturns /\ NothingAskedWhenSpilling]_vars

\* A call that asked for twice the increment (more than the growth percentage
\* gave), got it, and released it because the operator was spilled meanwhile.
C35_Witness ==
    /\ fit.pos = "returned" /\ fit.asked /\ fit.granted /\ fit.released
    /\ fit.requested = 2 * incrementBytes(fit)
    /\ fit.requested > Pct(fit.currentUsage, fit.spillableReservationGrowthPct)

\* ------------------------------------------------------------------ C36
\* C36: in every reachable state of a participant a non-empty wait queue
\* implies a running operation: waitOps is non-empty only while runningOp is
\* set, and the running operation is not itself in the queue.
C36_WaitersImplyRunningOp ==
    waitOps # <<>> =>
        /\ runningOp # 0
        /\ \A i \in 1..Len(waitOps) : waitOps[i] # runningOp

\* An operation took over from the one that had been running while another
\* one is still queued behind it.
C36_Witness ==
    /\ waitOps # <<>> /\ runningOp # 0
    /\ \E t \in Threads : pc[t] = "finish_resume" /\ resumePromise[t] = runningOp

\* ------------------------------------------------------------------ C37
\* Thread t has just had the check of finishArbitration fail.
FinishCheckFailed(t) == err[t] = "none" /\ err'[t] = "checkFailed"

\* Only its own finishArbitration takes runningOp_ away from an operation,
\* only that call takes a waiter off the queue, and only the setValue that
\* follows it fulfils a promise.
OnlyRunningOpHandsOver ==
    /\ runningOp # 0 /\ runningOp' # runningOp =>
          pc[runningOp] = "running" /\ pc'[runningOp] \in {"idle", "finish_resume"}
    /\ Len(waitOps') < Len(waitOps) =>
          pc[runningOp] = "running" /\ pc'[runningOp] = "finish_resume"
    /\ \A w \in Threads :
          promise'[w] > promise[w] =>
              \E t \in Threads : pc[t] = "finish_resume" /\ resumePromise[t] = w
                                 /\ pc'[t] = "idle"

\* A finishArbitration(op) by an idle thread with an operation that is not
\* running can only fail: it is possible for every such operation, and no
\* step of such a thread changes the admission state while it stays idle.
NotRunningFinishFails ==
    \A t \in Threads :
        /\ FinishCheckFailed(t) =>
              UNCHANGED <<runningOp, waitOps, promise, resumePromise, pc, arrivals>>
        /\ pc[t] = "idle" /\ pc'[t] = "idle" /\ err'[t] # err[t] =>
              err'[t] = "checkFailed"

\* C37: finishArbitration(op) with an operation that is not the running one
\* (a waiting, finished or never-started one) fails its check, leaves
\* runningOp and waitOps unchanged and wakes no waiter.
C37_FinishOfNonRunningOpFails ==
    [][OnlyRunningOpHandsOver /\ NotRunningFinishFails]_vars

\* The check has failed for a call made with a waiting operation, which is
\* still queued behind the running one.
C37_Witness ==
    /\ \E t \in Threads : err[t] = "checkFailed"
    /\ waitOps # <<>> /\ runningOp # 0
    /\ \E w \in Threads : pc[w] = "start_wait" /\ promise[w] = 0

\* ------------------------------------------------------------------ C38
\* The pool_->shrink of a policy shrink returns: that of shrink(false) or of
\* the shrink at the end of reclaim.
PolicyShrinkReturns ==
    \E t \in Threads :
        /\ pc[t] \in {"shrink_pool", "reclaim_shrink"} /\ target[t] > 0
        /\ pc'[t] = "idle" /\ err'[t] = "none"

\* min(capacity * minFreeCapacityRatio, minFreeCapacity), lines 175-178: the
\* free bytes a policy shrink leaves to an active pool.
MinFreeBytes ==
    IF config.minFreeCapacity # 0
    THEN Min((capacity * config.minFreeCapacityRatio) \div 100, config.minFreeCapacity)
    ELSE 0

\* C38: a policy shrink (shrink(false), also the one at the end of reclaim)
\* never takes an active pool below its floors: a capacity of at least
\* minCapacity stays so, the free bytes left are at least the min-free floor
\* when they were before, and the bytes returned are at most the free bytes;
\* an active pool's capacity falls below minCapacity only by the forced
\* shrink of shrink(true) or abort.
C38_PolicyShrinkKeepsFloors ==
    /\ [][PolicyShrinkReturns =>
             /\ capacity - capacity' <= freeBytes
             /\ \E t \in Threads : pc[t] # "idle" /\ ret'[t] = capacity - capacity'
             /\ ~inactivePool =>
                   /\ capacity >= config.minCapacity => capacity' >= config.minCapacity
                   /\ freeBytes >= MinFreeBytes => freeBytes' >= MinFreeBytes']_vars
    /\ [][(~inactivePool /\ capacity >= config.minCapacity
              /\ capacity' < config.minCapacity) => ForcedShrink]_vars

\* A policy shrink has given back bytes of an active pool that has both
\* floors set: the capacity is still at least minCapacity and free bytes, at
\* least the min-free floor, are left.
C38_Witness ==
    \E t \in Threads :
        /\ pc[t] = "idle" /\ ret[t] > 0 /\ reclaimedBytes = ret[t] /\ numShrinks > 0
        /\ ~inactivePool /\ ~aborted
        /\ config.minCapacity > 0 /\ config.minFreeCapacity # 0
        /\ capacity >= config.minCapacity
        /\ freeBytes > 0 /\ freeBytes >= MinFreeBytes

\* ------------------------------------------------------------------ C39
\* A HashBuild::reclaim call on operator d returns.
ReclaimCalledOn(d) == numReclaimCalls' = numReclaimCalls + 1 /\ reclaimResult'.op = d

\* C39: kFinish is terminal: once an operator's state is kFinish no step, of
\* addInput, noMoreInput, isBlocked, reclaim or anything else, changes it,
\* nothing but close touches what its spiller holds, and a reclaim called on
\* the finished operator returns without spilling anything, of this operator
\* or of a peer.
C39_FinishIsTerminal ==
    [][\A d \in Drivers :
          state[d] = "kFinish" =>
              /\ state'[d] = "kFinish"
              /\ spiller'[d].rows = spiller[d].rows \/ (~closed[d] /\ closed'[d])
              /\ ReclaimCalledOn(d) =>
                    /\ reclaimResult'.result \in {"nonReclaimable", "exceededMaxSpillLevel"}
                    /\ UNCHANGED <<table, spiller, bridgeVars>>]_vars

\* Reclaim has been called on a finished operator that can spill, and a later
\* addInput or noMoreInput has failed on an operator that stayed in kFinish.
C39_Witness ==
    /\ canSpillConfig
    /\ \E d \in Drivers :
          state[d] = "kFinish" /\ reclaimResult = [op |-> d, result |-> "nonReclaimable"]
    /\ \E d \in Drivers : state[d] = "kFinish" /\ failed[d] /\ ~futureLeft[d]

\* ------------------------------------------------------------------ C40
\* The states in which isBlocked reports the operator blocked.
BlockingStates == {"kWaitForBuild", "kWaitForProbe", "kYield"}

\* A future the operator holds for its driver, or has handed to it, belongs to
\* a blocking state.
FutureOnlyWhenBlocked ==
    \A d \in Drivers : future[d] # "none" => state[d] \in BlockingStates

====
